---- MODULE Spec2Model ----
(***************************************************************************)
(* A model of the levenshtein-automata crate: the Levenshtein NFA          *)
(* (levenshtein_nfa.rs), the parametric DFA enumerated from it             *)
(* (parametric_dfa.rs), the alphabet of characteristic vectors             *)
(* (alphabet.rs), the UTF-8 DFA builder and the DFA runtime (dfa.rs).      *)
(*                                                                         *)
(* Characters are Unicode code points (naturals), bytes are 0..255.  A Vec *)
(* is a sequence (1-based here, 0-based in the source), an Option<u32> is  *)
(* the number or None.                                                     *)
(***************************************************************************)
EXTENDS Integers, Sequences, FiniteSets, TLC

\* ------------------------------------------------------------------ bounds

\* Largest number in the distances a caller compares.
MaxCompared == 3
\* Longest query, in characters.
MaxQueryLen == 3
\* Longest evaluated text, in characters.
MaxTextLen == 3
MaxOffset == 2
MaxStateDistance == 2

\* The largest max_num_states of a Utf8DFABuilder on its own.
MaxNumStates == 2

\* --------------------------------------------------------------- machine

None == -1

U8 == 256

Pow2(k) == 2 ^ k

Min(a, b) == IF a <= b THEN a ELSE b

\* x >> k (the values shifted are below 2^31, so nothing is left from a
\* shift of 31 bits on)
Shr(x, k) == IF k >= 31 THEN 0 ELSE x \div Pow2(k)

\* Bitwise and / or of two naturals.
RECURSIVE BitAnd(_, _)
BitAnd(x, y) ==
    IF x = 0 \/ y = 0 THEN 0
    ELSE (x % 2) * (y % 2) + 2 * BitAnd(x \div 2, y \div 2)

RECURSIVE BitOr(_, _)
BitOr(x, y) ==
    IF x = 0 THEN y
    ELSE IF y = 0 THEN x
    ELSE (IF x % 2 = 1 \/ y % 2 = 1 THEN 1 ELSE 0) + 2 * BitOr(x \div 2, y \div 2)

\* ------------------------------------------------------ levenshtein_nfa.rs

\* enum Distance { Exact(u8), AtLeast(u8) }
Exact(d) == [d |-> d, kind |-> "Exact"]
AtLeast(d) == [d |-> d, kind |-> "AtLeast"]

\* Distance::to_u8
to_u8(distance) == distance.d

\* impl PartialOrd for Distance: Some(Ordering) or None.
partial_cmp(self, other) ==
    CASE self.kind = "Exact" /\ other.kind = "Exact" ->
            IF self.d < other.d THEN "Less"
            ELSE IF self.d = other.d THEN "Equal" ELSE "Greater"
      [] self.kind = "Exact" /\ other.kind = "AtLeast" ->
            IF other.d > self.d THEN "Greater" ELSE "None"
      [] self.kind = "AtLeast" /\ other.kind = "Exact" ->
            IF self.d > other.d THEN "Less" ELSE "None"
      [] OTHER ->
            IF self.d = other.d THEN "Equal" ELSE "None"

\* struct NFAState { offset: u32, distance: u8, in_transpose: bool }
NFAState(offset, distance, in_transpose) ==
    [distance |-> distance, offset |-> offset, in_transpose |-> in_transpose]

\* NFAState::default()
NFAStateDefault == NFAState(0, 0, FALSE)

\* fn extract_bit(bitset: u64, pos: u8) -> bool
extract_bit(bitset, pos) == (Shr(bitset, pos) % 2) = 1

\* fn dist(left: u32, right: u32) -> u32
dist(left, right) == IF left > right THEN left - right ELSE right - left

\* imply without the in_transpose flags: the comparison is never strict.
imply_ignoring_transpose(self, other) ==
    other.distance >= self.distance + dist(self.offset, other.offset)

\* NFAState::imply
imply(self, other) ==
    LET tranpose_imply == self.in_transpose \/ ~other.in_transpose
        delta_offset == IF self.offset >= other.offset
                        THEN self.offset - other.offset
                        ELSE other.offset - self.offset
    IN  IF tranpose_imply
        THEN other.distance >= self.distance + delta_offset
        ELSE other.distance > self.distance + delta_offset

\* #[derive(PartialOrd, Ord)] on NFAState: fields compared in order.
NFAStateLess(a, b) ==
    \/ a.offset < b.offset
    \/ a.offset = b.offset /\ a.distance < b.distance
    \/ a.offset = b.offset /\ a.distance = b.distance
       /\ ~a.in_transpose /\ b.in_transpose

\* Vec::swap_remove(i), i counted from 1.
swap_remove(states, i) ==
    LET last == Len(states)
    IN  [k \in 1..(last - 1) |-> IF k = i THEN states[last] ELSE states[k]]

\* The while loop of add_state moving on after a swap_remove: the state
\* swapped into place i is not looked at.
RECURSIVE add_state_evict_skipping(_, _, _)
add_state_evict_skipping(states, new_state, i) ==
    IF i > Len(states) THEN states
    ELSE IF imply(new_state, states[i])
         THEN add_state_evict_skipping(swap_remove(states, i), new_state, i + 1)
         ELSE add_state_evict_skipping(states, new_state, i + 1)

\* The while loop of MultiState::add_state.
RECURSIVE add_state_evict(_, _, _)
add_state_evict(states, new_state, i) ==
    IF i > Len(states) THEN states
    ELSE IF imply(new_state, states[i])
         THEN add_state_evict(swap_remove(states, i), new_state, i)
         ELSE add_state_evict(states, new_state, i + 1)

\* add_state that keeps the states the new one implies.
add_state_no_eviction(states, new_state) ==
    IF \E i \in 1..Len(states) : imply(states[i], new_state)
    THEN states
    ELSE Append(states, new_state)

\* MultiState::add_state
add_state(states, new_state) ==
    IF \E i \in 1..Len(states) : imply(states[i], new_state)
    THEN states
    ELSE Append(add_state_evict(states, new_state, 1), new_state)

\* Vec::sort on NFAStates (the order is total, so the result is the one
\* ascending arrangement).
RECURSIVE SortInsert(_, _)
SortInsert(sorted, x) ==
    IF sorted = <<>> THEN <<x>>
    ELSE IF NFAStateLess(x, Head(sorted)) THEN <<x>> \o sorted
         ELSE <<Head(sorted)>> \o SortInsert(Tail(sorted), x)

RECURSIVE sort(_)
sort(states) ==
    IF states = <<>> THEN <<>>
    ELSE SortInsert(sort(Tail(states)), Head(states))

\* MultiState::empty
MultiStateEmpty == <<>>

\* min of the offsets, unwrap_or(0)
RECURSIVE MinOffset(_)
MinOffset(states) ==
    IF states = <<>> THEN 0
    ELSE IF Len(states) = 1 THEN states[1].offset
         ELSE Min(states[1].offset, MinOffset(Tail(states)))

\* normalize that sorts the states and leaves their offsets as they are.
normalize_keeping_offsets(states) ==
    [states |-> sort(states), min_offset |-> MinOffset(states)]

\* MultiState::normalize: the normalized states and the offset subtracted.
normalize(states) ==
    LET min_offset == MinOffset(states)
    IN  [states |-> sort([i \in 1..Len(states) |->
                            [states[i] EXCEPT !.offset = @ - min_offset]]),
         min_offset |-> min_offset]

\* LevenshteinNFA::multistate_diameter
multistate_diameter(max_distance) == (2 * max_distance + 1) % U8

\* LevenshteinNFA::initial_states
initial_states == add_state(MultiStateEmpty, NFAStateDefault)

\* The loop of simple_transition left out: no state for characters of the
\* query that the text skips.
DeletionLoop_none(max_distance, state, symbol, multistate, d) == multistate

\* The for d in 1..max_distance + 1 - state.distance loop of simple_transition.
RECURSIVE DeletionLoop(_, _, _, _, _)
DeletionLoop(max_distance, state, symbol, multistate, d) ==
    IF d >= max_distance + 1 - state.distance THEN multistate
    ELSE DeletionLoop(max_distance, state, symbol,
            IF extract_bit(symbol, d)
            THEN add_state(multistate,
                    NFAState(state.offset + 1 + d, state.distance + d, FALSE))
            ELSE multistate,
            d + 1)

\* simple_transition without the state of a substitution.
simple_transition_no_substitution(max_distance, damerau, state, symbol, multistate) ==
    LET room == state.distance < max_distance
        m1 == IF room
              THEN add_state(multistate,
                      NFAState(state.offset, state.distance + 1, FALSE))
              ELSE multistate
        m3 == IF room
              THEN DeletionLoop(max_distance, state, symbol, m1, 1)
              ELSE m1
        m4 == IF room /\ damerau /\ extract_bit(symbol, 1)
              THEN add_state(m3,
                      NFAState(state.offset, state.distance + 1, TRUE))
              ELSE m3
        m5 == IF extract_bit(symbol, 0)
              THEN add_state(m4,
                      NFAState(state.offset + 1, state.distance, FALSE))
              ELSE m4
    IN  IF state.in_transpose /\ extract_bit(symbol, 0)
        THEN add_state(m5, NFAState(state.offset + 2, state.distance, FALSE))
        ELSE m5

\* simple_transition that never starts a transposition.
simple_transition_no_transposition(max_distance, damerau, state, symbol, multistate) ==
    LET room == state.distance < max_distance
        m1 == IF room
              THEN add_state(multistate,
                      NFAState(state.offset, state.distance + 1, FALSE))
              ELSE multistate
        m2 == IF room
              THEN add_state(m1,
                      NFAState(state.offset + 1, state.distance + 1, FALSE))
              ELSE m1
        m3 == IF room
              THEN DeletionLoop(max_distance, state, symbol, m2, 1)
              ELSE m2
        m5 == IF extract_bit(symbol, 0)
              THEN add_state(m3,
                      NFAState(state.offset + 1, state.distance, FALSE))
              ELSE m3
    IN  IF state.in_transpose /\ extract_bit(symbol, 0)
        THEN add_state(m5, NFAState(state.offset + 2, state.distance, FALSE))
        ELSE m5

\* LevenshteinNFA::simple_transition
simple_transition(max_distance, damerau, state, symbol, multistate) ==
    LET room == state.distance < max_distance
        m1 == IF room
              THEN add_state(multistate,
                      NFAState(state.offset, state.distance + 1, FALSE))
              ELSE multistate
        m2 == IF room
              THEN add_state(m1,
                      NFAState(state.offset + 1, state.distance + 1, FALSE))
              ELSE m1
        m3 == IF room
              THEN DeletionLoop(max_distance, state, symbol, m2, 1)
              ELSE m2
        m4 == IF room /\ damerau /\ extract_bit(symbol, 1)
              THEN add_state(m3,
                      NFAState(state.offset, state.distance + 1, TRUE))
              ELSE m3
        m5 == IF extract_bit(symbol, 0)
              THEN add_state(m4,
                      NFAState(state.offset + 1, state.distance, FALSE))
              ELSE m4
    IN  IF state.in_transpose /\ extract_bit(symbol, 0)
        THEN add_state(m5, NFAState(state.offset + 2, state.distance, FALSE))
        ELSE m5

\* The for loop of LevenshteinNFA::transition.
RECURSIVE TransitionLoop(_, _, _, _, _, _)
TransitionLoop(max_distance, damerau, current_state, dest_state, chi, i) ==
    IF i > Len(current_state) THEN dest_state
    ELSE LET state == current_state[i]
             mask == Pow2(multistate_diameter(max_distance)) - 1
             shifted == BitAnd(Shr(chi, state.offset), mask)
         IN  TransitionLoop(max_distance, damerau, current_state,
                simple_transition(max_distance, damerau, state, shifted, dest_state),
                chi, i + 1)

\* LevenshteinNFA::transition: dest_state after clear(), the loop and sort().
nfa_transition(max_distance, damerau, current_state, shifted_chi_vector) ==
    sort(TransitionLoop(max_distance, damerau, current_state, MultiStateEmpty,
                        shifted_chi_vector, 1))

\* The map / filter / min of multistate_distance: the least
\* state.distance + dist(query_len, state.offset) as u8 that is <= max_distance,
\* None when there is none.
RECURSIVE MinQualifying(_, _, _)
MinQualifying(max_distance, states, query_len) ==
    IF states = <<>> THEN None
    ELSE LET d == (states[1].distance
                    + (dist(query_len, states[1].offset) % U8)) % U8
             rest == MinQualifying(max_distance, Tail(states), query_len)
         IN  IF d <= max_distance /\ (rest = None \/ d <= rest) THEN d ELSE rest

\* multistate_distance with AtLeast(max_distance) when no state qualifies.
multistate_distance_at_least_max(max_distance, multistate, query_len) ==
    LET m == MinQualifying(max_distance, multistate, query_len)
    IN  IF m = None THEN AtLeast(max_distance) ELSE Exact(m)

\* LevenshteinNFA::multistate_distance
multistate_distance(max_distance, multistate, query_len) ==
    LET m == MinQualifying(max_distance, multistate, query_len)
    IN  IF m = None THEN AtLeast(max_distance + 1) ELSE Exact(m)

\* fn compute_characteristic_vector(query: &[char], c: char) -> u64
RECURSIVE compute_characteristic_vector(_, _)
compute_characteristic_vector(query, c) ==
    IF query = <<>> THEN 0
    ELSE (IF query[1] = c THEN 1 ELSE 0)
         + 2 * compute_characteristic_vector(Tail(query), c)

\* The loop of LevenshteinNFA::compute_distance over other.chars().
RECURSIVE ComputeDistanceLoop(_, _, _, _, _)
ComputeDistanceLoop(max_distance, damerau, query_chars, other, current_state) ==
    IF other = <<>> THEN current_state
    ELSE ComputeDistanceLoop(max_distance, damerau, query_chars, Tail(other),
            nfa_transition(max_distance, damerau, current_state,
                compute_characteristic_vector(query_chars, Head(other))))

\* LevenshteinNFA::compute_distance
nfa_compute_distance(max_distance, damerau, query, other) ==
    multistate_distance(max_distance,
        ComputeDistanceLoop(max_distance, damerau, query, other, initial_states),
        Len(query))

\* ----------------------------------------------------------------- index.rs

\* Index<I> is its items: the HashMap maps each item to its position in items.
\* Position (from 0) of item in items, None when absent.
RECURSIVE IndexLookup(_, _, _)
IndexLookup(items, item, i) ==
    IF i > Len(items) THEN None
    ELSE IF items[i] = item THEN i - 1
         ELSE IndexLookup(items, item, i + 1)

\* Index::get_or_allocate: the items afterwards and the id returned.
index_get_or_allocate(items, item) ==
    LET index_len == Len(items)
        found == IndexLookup(items, item, 1)
        item_index == IF found = None THEN index_len ELSE found
    IN  [items |-> IF item_index = index_len THEN Append(items, item) ELSE items,
         id |-> item_index]

\* --------------------------------------------------------- parametric_dfa.rs

\* struct ParametricState { shape_id: u32, offset: u32 }
ParametricState(shape_id, offset) == [offset |-> offset, shape_id |-> shape_id]

\* ParametricState::empty
ParametricStateEmpty == ParametricState(0, 0)

\* ParametricState::is_dead_end
is_dead_end(state) == state.shape_id = 0

\* struct Transition { dest_shape_id: u32, delta_offset: u32 }
Transition(dest_shape_id, delta_offset) ==
    [delta_offset |-> delta_offset, dest_shape_id |-> dest_shape_id]

\* apply that adds delta_offset whatever the destination shape.
apply_keeping_offset(self, state) ==
    ParametricState(self.dest_shape_id, state.offset + self.delta_offset)

\* Transition::apply
apply(self, state) ==
    ParametricState(self.dest_shape_id,
        IF self.dest_shape_id = 0 THEN 0 ELSE state.offset + self.delta_offset)

\* ParametricDFA::initial_state
parametric_initial_state == ParametricState(1, 0)

\* One pass of the body of from_nfa's inner loop, for shape state_id and chi:
\* the index and the transitions table afterwards.
FromNfaStep(max_distance, damerau, acc, state_id, chi) ==
    LET multistate == acc.items[state_id + 1]
        dest == normalize(nfa_transition(max_distance, damerau, multistate, chi))
        got == index_get_or_allocate(acc.items, dest.states)
    IN  [items |-> got.items,
         transitions |-> Append(acc.transitions,
                                Transition(got.id, dest.min_offset))]

\* The passes numbered lo .. hi - 1 of from_nfa's two nested loops, in order;
\* pass k is shape k / num_chi under chi k % num_chi and records transition k.
\* (The range is halved only to keep the evaluation shallow; the passes run in
\* the loops' order, the second half on the result of the first.)
RECURSIVE FromNfaPasses(_, _, _, _, _)
FromNfaPasses(max_distance, damerau, acc, lo, hi) ==
    IF hi <= lo THEN acc
    ELSE IF hi = lo + 1
         THEN FromNfaStep(max_distance, damerau, acc,
                          lo \div Pow2(multistate_diameter(max_distance)),
                          lo % Pow2(multistate_diameter(max_distance)))
         ELSE LET first == FromNfaPasses(max_distance, damerau, acc,
                                         lo, (lo + hi) \div 2)
              IN  IF Len(first.transitions) = (lo + hi) \div 2
                  THEN FromNfaPasses(max_distance, damerau, first,
                                     (lo + hi) \div 2, hi)
                  ELSE first

\* The for state_id in 0.. worklist of from_nfa: it runs until state_id
\* reaches index.len(), which grows as shapes are met.
RECURSIVE FromNfaLoop(_, _, _, _)
FromNfaLoop(max_distance, damerau, acc, state_id) ==
    IF state_id = Len(acc.items) THEN acc
    ELSE FromNfaLoop(max_distance, damerau,
            FromNfaPasses(max_distance, damerau, acc,
                state_id * Pow2(multistate_diameter(max_distance)),
                Len(acc.items) * Pow2(multistate_diameter(max_distance))),
            Len(acc.items))

\* The accept table of from_nfa: multistate_distance(shape, offset).to_u8()
\* for every shape and every offset below the diameter, shape-major.
DistanceTable(max_distance, items) ==
    LET diameter == multistate_diameter(max_distance)
    IN  [k \in 1..(Len(items) * diameter) |->
            to_u8(multistate_distance(max_distance,
                    items[((k - 1) \div diameter) + 1], (k - 1) % diameter))]

\* ParametricDFA::from_nfa (shapes: the index's items, kept for reference).
from_nfa(max_distance, damerau) ==
    LET i0 == index_get_or_allocate(<<>>, MultiStateEmpty).items
        i1 == index_get_or_allocate(i0, initial_states).items
        r == FromNfaLoop(max_distance, damerau,
                         [items |-> i1, transitions |-> <<>>], 0)
    IN  [distance |-> DistanceTable(max_distance, r.items),
         max_distance |-> max_distance,
         transitions |-> r.transitions,
         diameter |-> multistate_diameter(max_distance),
         transition_stride |-> Pow2(multistate_diameter(max_distance)),
         shapes |-> r.items]

\* LevenshteinAutomatonBuilder::new(max_distance, transposition_cost_one):
\* the parametric DFA the builder keeps.
LevenshteinAutomatonBuilder(max_distance, transposition_cost_one) ==
    from_nfa(max_distance, transposition_cost_one)

\* ParametricDFA::num_states
pdfa_num_states(pdfa) == Len(pdfa.transitions) \div pdfa.transition_stride

\* ParametricDFA::transition (chi < transition_stride is asserted)
pdfa_transition(pdfa, state, chi) ==
    pdfa.transitions[pdfa.transition_stride * state.shape_id + chi + 1]

\* distance with AtLeast(max_distance) for the dead end and the far offsets.
pdfa_distance_off_by_one(pdfa, state, query_len) ==
    LET remaining_offset == query_len - state.offset
    IN  IF is_dead_end(state) \/ remaining_offset >= pdfa.diameter
        THEN AtLeast(pdfa.max_distance)
        ELSE LET d == pdfa.distance[pdfa.diameter * state.shape_id
                                    + remaining_offset + 1]
             IN  IF d > pdfa.max_distance THEN AtLeast(d) ELSE Exact(d)

\* ParametricDFA::distance
pdfa_distance(pdfa, state, query_len) ==
    LET remaining_offset == query_len - state.offset
    IN  IF is_dead_end(state) \/ remaining_offset >= pdfa.diameter
        THEN AtLeast(pdfa.max_distance + 1)
        ELSE LET d == pdfa.distance[pdfa.diameter * state.shape_id
                                    + remaining_offset + 1]
             IN  IF d > pdfa.max_distance THEN AtLeast(d) ELSE Exact(d)

\* ParametricDFA::is_prefix_sink
is_prefix_sink(pdfa, state, query_len) ==
    IF is_dead_end(state) THEN TRUE
    ELSE LET remaining_offset == query_len - state.offset
             base == pdfa.diameter * state.shape_id
             prefix_distance == pdfa.distance[base + remaining_offset + 1]
         IN  IF remaining_offset < pdfa.diameter
             THEN IF prefix_distance > pdfa.max_distance THEN FALSE
                  ELSE \A k \in 0..(remaining_offset - 1) :
                          ~(pdfa.distance[base + k + 1] < prefix_distance)
             ELSE FALSE

\* -------------------------------------------------------------- alphabet.rs

\* A u32 word of a FullCharacteristicVector is the set of its set bits, 0..31.
WordBits == 32

\* The number whose set bits are bits.
RECURSIVE BitsValue(_)
BitsValue(bits) ==
    IF bits = {} THEN 0
    ELSE LET b == CHOOSE x \in bits : TRUE
         IN  Pow2(b) + BitsValue(bits \ {b})

\* shift_and_mask that reads the word of the offset only.
shift_and_mask_one_word(self, offset, mask) ==
    LET bucket_id == offset \div WordBits
        align == offset - bucket_id * WordBits
        masked(bits) == BitsValue({i \in bits : extract_bit(mask, i)})
    IN  masked({i - align : i \in {j \in self[bucket_id + 1] : j >= align}})

\* shift_and_mask that shifts and does not mask.
shift_and_mask_unmasked(self, offset, mask) ==
    LET bucket_id == offset \div WordBits
        align == offset - bucket_id * WordBits
    IN  IF align = 0
        THEN BitsValue(self[bucket_id + 1])
        ELSE LET left == {i - align : i \in {j \in self[bucket_id + 1] : j >= align}}
                 right == {i + (WordBits - align) :
                            i \in {j \in self[bucket_id + 2] :
                                     j + (WordBits - align) < WordBits}}
             IN  BitsValue(left \cup right)

\* FullCharacteristicVector::shift_and_mask (a word is indexed from 1 here)
shift_and_mask(self, offset, mask) ==
    LET bucket_id == offset \div WordBits
        align == offset - bucket_id * WordBits
        masked(bits) == BitsValue({i \in bits : extract_bit(mask, i)})
    IN  IF align = 0
        THEN masked(self[bucket_id + 1])
        ELSE LET left == {i - align : i \in {j \in self[bucket_id + 1] : j >= align}}
                 right == {i + (WordBits - align) :
                            i \in {j \in self[bucket_id + 2] :
                                     j + (WordBits - align) < WordBits}}
             IN  masked(left \cup right)

\* The distinct characters in descending order.
RECURSIVE SortedChars_descending(_)
SortedChars_descending(chars) ==
    IF chars = {} THEN <<>>
    ELSE LET c == CHOOSE x \in chars : \A y \in chars : x >= y
         IN  <<c>> \o SortedChars_descending(chars \ {c})

\* charset.sort(); charset.dedup(): the distinct characters, ascending.
RECURSIVE SortedChars(_)
SortedChars(chars) ==
    IF chars = {} THEN <<>>
    ELSE LET c == CHOOSE x \in chars : \A y \in chars : x <= y
         IN  <<c>> \o SortedChars(chars \ {c})

\* The bits of c in the chunks of 32 characters of query_chars, and a last
\* empty word.
CharacteristicWords(query_chars, c) ==
    LET num_chunks == (Len(query_chars) + WordBits - 1) \div WordBits
    IN  [k \in 1..(num_chunks + 1) |->
            IF k = num_chunks + 1 THEN {}
            ELSE {i \in 0..(WordBits - 1) :
                    /\ ((k - 1) * WordBits) + i + 1 <= Len(query_chars)
                    /\ query_chars[((k - 1) * WordBits) + i + 1] = c}]

\* Alphabet::for_query_chars: the charset, a sequence of (char, vector).
for_query_chars(query_chars) ==
    LET charset == SortedChars({query_chars[i] : i \in 1..Len(query_chars)})
    IN  [k \in 1..Len(charset) |->
            <<charset[k], CharacteristicWords(query_chars, charset[k])>>]

\* -------------------------------------------------------------------- dfa.rs

\* pub const SINK_STATE: u32 = 0
SINK_STATE == 0

\* char::encode_utf8
encode_utf8(c) ==
    IF c < 128 THEN <<c>>
    ELSE IF c < 2048 THEN <<192 + (c \div 64), 128 + (c % 64)>>
    ELSE IF c < 65536
         THEN <<224 + (c \div 4096), 128 + ((c \div 64) % 64), 128 + (c % 64)>>
         ELSE <<240 + (c \div 262144), 128 + ((c \div 4096) % 64),
                128 + ((c \div 64) % 64), 128 + (c % 64)>>

\* A row [u32; 256] is kept as one value per range of bytes that add_state
\* fills (0..192, 192..224, 224..240, 240..256) and the bytes set on their own.
ByteRange(b) == IF b < 192 THEN 1 ELSE IF b < 224 THEN 2 ELSE IF b < 240 THEN 3 ELSE 4

RangeFirst == <<0, 192, 224, 240>>
RangeEnd == <<192, 224, 240, 256>>

\* row[b]
RowGet(row, b) ==
    IF b \in DOMAIN row.byte THEN row.byte[b] ELSE row.range[ByteRange(b)]

\* row[b] = val
RowSet(row, b, val) == [row EXCEPT !.byte = (b :> val) @@ @]

\* fn fill(dest, val) on row[lo..hi]
fill(row, lo, hi, val) ==
    LET partly == UNION {IF lo <= RangeFirst[r] /\ RangeEnd[r] <= hi THEN {}
                         ELSE (IF lo > RangeFirst[r] THEN lo ELSE RangeFirst[r])
                              .. ((IF hi < RangeEnd[r] THEN hi ELSE RangeEnd[r]) - 1) :
                         r \in 1..4}
        keep == {b \in DOMAIN row.byte : b < lo \/ b >= hi}
    IN  [byte |-> [b \in keep \cup partly |->
                      IF b \in partly THEN val ELSE row.byte[b]],
         range |-> [r \in 1..4 |->
                      IF lo <= RangeFirst[r] /\ RangeEnd[r] <= hi
                      THEN val ELSE row.range[r]]]

\* [0u32; 256]
ZeroRow == [byte |-> << >>, range |-> <<0, 0, 0, 0>>]

\* Utf8StateId::predecessor / Utf8StateId::original
Utf8StateId_predecessor(state_id, num_steps) == state_id * 4 + num_steps
Utf8StateId_original(state_id) == Utf8StateId_predecessor(state_id, 0)

\* A Vec<Option<u32>> of None is kept as its length and its Some entries.
OptGet(entries, bucket) ==
    IF bucket \in DOMAIN entries THEN entries[bucket] ELSE None

OptSet(entries, bucket, val) == (bucket :> val) @@ entries

\* Utf8DFABuilder::with_max_num_states
with_max_num_states(max_num_states) ==
    [index_len |-> max_num_states * 4 + 3,
     transitions |-> <<>>,
     max_num_states |-> max_num_states,
     index |-> << >>,
     distances |-> <<>>,
     initial_state |-> 0,
     num_states |-> 0]

\* allocate that gives the new state the distance Exact(0).
allocate_matching(b) ==
    [b |-> [b EXCEPT !.num_states = @ + 1,
                     !.distances = Append(@, Exact(0)),
                     !.transitions = Append(@, ZeroRow)],
     id |-> b.num_states]

\* Utf8DFABuilder::allocate: the builder afterwards and the new state.
allocate(b) ==
    [b |-> [b EXCEPT !.num_states = @ + 1,
                     !.distances = Append(@, AtLeast(255)),
                     !.transitions = Append(@, ZeroRow)],
     id |-> b.num_states]

\* Utf8DFABuilder::get_or_allocate
dfa_get_or_allocate(b, state_bucket) ==
    IF OptGet(b.index, state_bucket) # None
    THEN [b |-> b, id |-> OptGet(b.index, state_bucket)]
    ELSE LET a == allocate(b)
         IN  [b |-> [a.b EXCEPT !.index = OptSet(@, state_bucket, a.id)],
              id |-> a.id]

\* Utf8DFABuilder::set_initial_state
set_initial_state(b, initial_state) ==
    LET g == dfa_get_or_allocate(b, Utf8StateId_original(initial_state))
    IN  [g.b EXCEPT !.initial_state = g.id]

\* The loop of add_state over 1..3: no predecessor state for the first byte
\* of the characters of four bytes.
RECURSIVE PredecessorChain_short(_, _, _, _)
PredecessorChain_short(b, predecessor_states, default_successor_orig, num_bytes) ==
    IF num_bytes >= 3 THEN [b |-> b, predecessor_states |-> predecessor_states]
    ELSE LET g == dfa_get_or_allocate(b,
                    Utf8StateId_predecessor(default_successor_orig, num_bytes))
             succ == predecessor_states[num_bytes]
             filled == [g.b EXCEPT !.transitions[g.id + 1] = fill(@, 0, 256, succ)]
         IN  PredecessorChain_short(filled,
                [predecessor_states EXCEPT ![num_bytes + 1] = g.id],
                default_successor_orig, num_bytes + 1)

\* The for num_bytes in 1..4 loop of add_state: the builder and
\* predecessor_states afterwards.
RECURSIVE PredecessorChain(_, _, _, _)
PredecessorChain(b, predecessor_states, default_successor_orig, num_bytes) ==
    IF num_bytes >= 4 THEN [b |-> b, predecessor_states |-> predecessor_states]
    ELSE LET g == dfa_get_or_allocate(b,
                    Utf8StateId_predecessor(default_successor_orig, num_bytes))
             succ == predecessor_states[num_bytes]
             filled == [g.b EXCEPT !.transitions[g.id + 1] = fill(@, 0, 256, succ)]
         IN  PredecessorChain(filled,
                [predecessor_states EXCEPT ![num_bytes + 1] = g.id],
                default_successor_orig, num_bytes + 1)

\* add_state that sends the first bytes of the characters of three bytes
\* where it sends those of the characters of two bytes.
dfa_add_state_two_bytes(b, state, distance, default_successor_orig) ==
    LET g1 == dfa_get_or_allocate(b, Utf8StateId_original(state))
        state_id == g1.id
        b1 == [g1.b EXCEPT !.distances[state_id + 1] = distance]
        g2 == dfa_get_or_allocate(b1, Utf8StateId_original(default_successor_orig))
        default_successor_id == g2.id
        chain == PredecessorChain(g2.b,
                    <<default_successor_id, default_successor_id,
                      default_successor_id, default_successor_id>>,
                    default_successor_orig, 1)
        ps == chain.predecessor_states
        row == fill(fill(fill(fill(chain.b.transitions[state_id + 1],
                        0, 192, ps[1]), 192, 224, ps[2]), 224, 240, ps[2]),
                        240, 256, ps[4])
    IN  [b |-> [chain.b EXCEPT !.transitions[state_id + 1] = row],
         state_id |-> state_id,
         default_successor |-> ps]

\* Utf8DFABuilder::add_state: the builder afterwards and the
\* Utf8DFAStateBuilder returned (state_id, default_successor; the array
\* default_successor[k] is default_successor[k + 1] here).
dfa_add_state(b, state, distance, default_successor_orig) ==
    LET g1 == dfa_get_or_allocate(b, Utf8StateId_original(state))
        state_id == g1.id
        b1 == [g1.b EXCEPT !.distances[state_id + 1] = distance]
        g2 == dfa_get_or_allocate(b1, Utf8StateId_original(default_successor_orig))
        default_successor_id == g2.id
        chain == PredecessorChain(g2.b,
                    <<default_successor_id, default_successor_id,
                      default_successor_id, default_successor_id>>,
                    default_successor_orig, 1)
        ps == chain.predecessor_states
        row == fill(fill(fill(fill(chain.b.transitions[state_id + 1],
                        0, 192, ps[1]), 192, 224, ps[2]), 224, 240, ps[3]),
                        240, 256, ps[4])
    IN  [b |-> [chain.b EXCEPT !.transitions[state_id + 1] = row],
         state_id |-> state_id,
         default_successor |-> ps]

\* Utf8DFAStateBuilder::add_transition_id
add_transition_id(b, from_state_id, byte, to_state_id) ==
    [b EXCEPT !.transitions[from_state_id + 1] = RowSet(@, byte, to_state_id)]

\* The loop of add_transition without the fill of the intermediary state
\* allocated: its row stays [0u32; 256].
RECURSIVE AddTransitionChain_unfilled(_, _, _, _, _)
AddTransitionChain_unfilled(b, default_successor, bytes, from_state_id_decoded, i) ==
    IF i >= Len(bytes) - 1
    THEN [b |-> b, from_state_id_decoded |-> from_state_id_decoded]
    ELSE LET byte == bytes[i + 1]
             remaining_num_bytes == Len(bytes) - i - 1
             found == RowGet(b.transitions[from_state_id_decoded + 1], byte)
             fresh == found = default_successor[remaining_num_bytes + 1]
             a == allocate(b)
             intermediary_state_id == IF fresh THEN a.id ELSE found
             b1 == IF fresh THEN a.b ELSE b
         IN  AddTransitionChain_unfilled(
                add_transition_id(b1, from_state_id_decoded, byte,
                                  intermediary_state_id),
                default_successor, bytes, intermediary_state_id, i + 1)

\* The loop of add_transition that never allocates: it goes on from the
\* state found, the state of the default chain included.
RECURSIVE AddTransitionChain_shared(_, _, _, _, _)
AddTransitionChain_shared(b, default_successor, bytes, from_state_id_decoded, i) ==
    IF i >= Len(bytes) - 1
    THEN [b |-> b, from_state_id_decoded |-> from_state_id_decoded]
    ELSE LET byte == bytes[i + 1]
             found == RowGet(b.transitions[from_state_id_decoded + 1], byte)
         IN  AddTransitionChain_shared(
                add_transition_id(b, from_state_id_decoded, byte, found),
                default_successor, bytes, found, i + 1)

\* The for (i, b) in bytes[..bytes.len() - 1] loop of add_transition: the
\* builder and from_state_id_decoded afterwards.
RECURSIVE AddTransitionChain(_, _, _, _, _)
AddTransitionChain(b, default_successor, bytes, from_state_id_decoded, i) ==
    IF i >= Len(bytes) - 1
    THEN [b |-> b, from_state_id_decoded |-> from_state_id_decoded]
    ELSE LET byte == bytes[i + 1]
             remaining_num_bytes == Len(bytes) - i - 1
             found == RowGet(b.transitions[from_state_id_decoded + 1], byte)
             fresh == found = default_successor[remaining_num_bytes + 1]
             a == allocate(b)
             intermediary_state_id == IF fresh THEN a.id ELSE found
             b1 == IF fresh
                   THEN [a.b EXCEPT !.transitions[a.id + 1] =
                            fill(@, 0, 256, default_successor[remaining_num_bytes])]
                   ELSE b
         IN  AddTransitionChain(
                add_transition_id(b1, from_state_id_decoded, byte,
                                  intermediary_state_id),
                default_successor, bytes, intermediary_state_id, i + 1)

\* add_transition that sets the last byte of chr on the state itself, without
\* the chain for the bytes before.
add_transition_last_byte(b, state_id, default_successor, chr, to_state_id) ==
    LET bytes == encode_utf8(chr)
        g == dfa_get_or_allocate(b, Utf8StateId_original(to_state_id))
    IN  add_transition_id(g.b, state_id, bytes[Len(bytes)], g.id)

\* add_transition that sets the Utf8StateId of to_state_id as the successor,
\* not the state allocated for it.
add_transition_undecoded(b, state_id, default_successor, chr, to_state_id) ==
    LET bytes == encode_utf8(chr)
        chain == AddTransitionChain(b, default_successor, bytes, state_id, 0)
    IN  add_transition_id(chain.b, chain.from_state_id_decoded,
                          bytes[Len(bytes)], Utf8StateId_original(to_state_id))

\* Utf8DFAStateBuilder::add_transition
add_transition(b, state_id, default_successor, chr, to_state_id) ==
    LET bytes == encode_utf8(chr)
        chain == AddTransitionChain(b, default_successor, bytes, state_id, 0)
        g == dfa_get_or_allocate(chain.b, Utf8StateId_original(to_state_id))
    IN  add_transition_id(g.b, chain.from_state_id_decoded,
                          bytes[Len(bytes)], g.id)

\* Utf8DFABuilder::build
build(b) ==
    [transitions |-> b.transitions,
     distances |-> b.distances,
     initial_state |-> b.initial_state]

\* DFA::initial_state, DFA::distance, DFA::num_states, DFA::transition
dfa_initial_state(self) == self.initial_state
dfa_distance(self, state_id) == self.distances[state_id + 1]
dfa_num_states(self) == Len(self.transitions)
dfa_transition(self, from_state_id, b) == RowGet(self.transitions[from_state_id + 1], b)

\* impl fst::Automaton for DFA: is_match, can_match (accept is transition)
is_match(self, from) == dfa_distance(self, from).kind = "Exact"
can_match(self, from) == from # SINK_STATE

\* The loop of DFA::eval from a state.
RECURSIVE EvalFrom(_, _, _)
EvalFrom(self, state, text) ==
    IF text = <<>> THEN state
    ELSE EvalFrom(self, dfa_transition(self, state, Head(text)), Tail(text))

\* DFA::eval
eval(self, text) == dfa_distance(self, EvalFrom(self, dfa_initial_state(self), text))

\* ------------------------------------------ parametric_dfa.rs: build_dfa

\* An index with query_len offsets per shape, none for the end of the query.
ParametricStateIndex_new_no_end(query_len, num_param_states) ==
    [index_len |-> num_param_states * query_len,
     state_index |-> << >>,
     state_queue |-> <<>>,
     num_offsets |-> query_len]

\* ParametricStateIndex::new
ParametricStateIndex_new(query_len, num_param_states) ==
    [index_len |-> num_param_states * (query_len + 1),
     state_index |-> << >>,
     state_queue |-> <<>>,
     num_offsets |-> query_len + 1]

\* ParametricStateIndex::num_states / max_num_states / get
psi_num_states(psi) == Len(psi.state_queue)
psi_max_num_states(psi) == psi.index_len
psi_get(psi, state_id) == psi.state_queue[state_id + 1]

\* The bucket of a parametric state in ParametricStateIndex::get_or_allocate.
psi_bucket(psi, parametric_state) ==
    parametric_state.shape_id * psi.num_offsets + parametric_state.offset

\* get_or_allocate that never finds the state in the index.
psi_get_or_allocate_always(psi, parametric_state) ==
    [id |-> Len(psi.state_queue),
     psi |-> [psi EXCEPT !.state_queue = Append(@, parametric_state),
                         !.state_index = OptSet(@, psi_bucket(psi, parametric_state),
                                                Len(psi.state_queue))]]

\* ParametricStateIndex::get_or_allocate: the index afterwards and the id.
psi_get_or_allocate(psi, parametric_state) ==
    LET bucket == psi_bucket(psi, parametric_state)
    IN  IF OptGet(psi.state_index, bucket) # None
        THEN [id |-> OptGet(psi.state_index, bucket), psi |-> psi]
        ELSE [id |-> Len(psi.state_queue),
              psi |-> [psi EXCEPT !.state_queue = Append(@, parametric_state),
                                  !.state_index = OptSet(@, bucket, Len(psi.state_queue))]]

\* The for (chr, characteristic_vec) in alphabet.iter() loop of build_dfa for
\* the state being built: the index and the builder afterwards.
RECURSIVE AlphabetLoop(_, _, _, _, _, _, _)
AlphabetLoop(pdfa, alphabet, state, psi, b, sb, k) ==
    IF k > Len(alphabet) THEN [b |-> b, psi |-> psi]
    ELSE LET chr == alphabet[k][1]
             mask == Pow2(pdfa.diameter) - 1
             chi == shift_and_mask(alphabet[k][2], state.offset, mask)
             dest_state == apply(pdfa_transition(pdfa, state, chi), state)
             g == psi_get_or_allocate(psi, dest_state)
             added == add_transition(b, sb.state_id, sb.default_successor,
                                     chr, g.id)
         IN  \* (the builder only grows; the test makes the transition of
             \* this character complete before the next one starts)
             IF added.num_states < b.num_states THEN [b |-> added, psi |-> g.psi]
             ELSE AlphabetLoop(pdfa, alphabet, state, g.psi, added, sb, k + 1)

\* One pass of the for state_id in 0.. loop of build_dfa.
BuildPass(pdfa, query_chars, prefix, psi, b, state_id) ==
    LET query_len == Len(query_chars)
        state == psi_get(psi, state_id)
    IN  IF prefix /\ is_prefix_sink(pdfa, state, query_len)
        THEN [b |-> dfa_add_state(b, state_id,
                        pdfa_distance(pdfa, state, query_len), state_id).b,
              psi |-> psi]
        ELSE LET default_successor == apply(pdfa_transition(pdfa, state, 0), state)
                 g == psi_get_or_allocate(psi, default_successor)
                 sb == dfa_add_state(b, state_id,
                          pdfa_distance(pdfa, state, query_len), g.id)
             IN  AlphabetLoop(pdfa, for_query_chars(query_chars), state,
                              g.psi, sb.b, sb, 1)

\* build_dfa that allocates the initial state before the dead end.
BuildStart_initial_first(pdfa, query_chars) ==
    LET psi0 == ParametricStateIndex_new(Len(query_chars), pdfa_num_states(pdfa))
        g1 == psi_get_or_allocate(psi0, parametric_initial_state)
        g0 == psi_get_or_allocate(g1.psi, ParametricStateEmpty)
    IN  [b |-> with_max_num_states(psi_max_num_states(psi0)),
         psi |-> g0.psi,
         dead_end_state_id |-> g0.id,
         initial_state_id |-> g1.id]

\* build_dfa up to its loop: the index holding the dead end and the initial
\* state, and the empty builder.
BuildStart(pdfa, query_chars) ==
    LET psi0 == ParametricStateIndex_new(Len(query_chars), pdfa_num_states(pdfa))
        g0 == psi_get_or_allocate(psi0, ParametricStateEmpty)
        g1 == psi_get_or_allocate(g0.psi, parametric_initial_state)
    IN  [b |-> with_max_num_states(psi_max_num_states(psi0)),
         psi |-> g1.psi,
         dead_end_state_id |-> g0.id,
         initial_state_id |-> g1.id]

\* A failure of a pass of build_dfa's loop: an index out of bounds, an
\* assertion, or query_len - state.offset below zero.
BuildPassFails(pdfa, query_chars, psi, state_id) ==
    LET query_len == Len(query_chars)
        state == psi_get(psi, state_id)
        alphabet == for_query_chars(query_chars)
        mask == Pow2(pdfa.diameter) - 1
        dests == {apply(pdfa_transition(pdfa, state, 0), state)}
                 \cup {apply(pdfa_transition(pdfa, state,
                                shift_and_mask(alphabet[k][2], state.offset, mask)),
                             state) : k \in 1..Len(alphabet)}
    IN  \/ state.offset > query_len
        \/ state_id >= psi_max_num_states(psi)
        \/ \E d \in dests : psi_bucket(psi, d) >= psi.index_len

\* ------------------------------------------------- distances of reference

\* tests.rs make_distance
make_distance(n, max_distance) ==
    IF n > max_distance THEN AtLeast(max_distance + 1) ELSE Exact(n)

\* str::as_bytes of a text given as its characters.
RECURSIVE as_bytes(_)
as_bytes(chars) ==
    IF chars = <<>> THEN <<>>
    ELSE encode_utf8(Head(chars)) \o as_bytes(Tail(chars))

\* The loop of ParametricDFA::compute_distance over right.chars(): the state
\* after the last character, or the dead end as soon as it is met.
RECURSIVE ParametricDistanceLoop(_, _, _, _)
ParametricDistanceLoop(pdfa, left_chars, right, state) ==
    IF right = <<>> THEN state
    ELSE LET start == state.offset
             stop == Min(start + pdfa.diameter, Len(left_chars))
             chi == compute_characteristic_vector(
                        SubSeq(left_chars, start + 1, stop), Head(right))
             next_state == apply(pdfa_transition(pdfa, state, chi), state)
         IN  IF is_dead_end(next_state) THEN next_state
             ELSE ParametricDistanceLoop(pdfa, left_chars, Tail(right),
                                         next_state)

\* ParametricDFA::compute_distance: left.len() is the length of left in bytes.
pdfa_compute_distance(pdfa, left, right) ==
    LET state == ParametricDistanceLoop(pdfa, left, right,
                                        parametric_initial_state)
    IN  IF is_dead_end(state) THEN AtLeast(pdfa.max_distance + 1)
        ELSE pdfa_distance(pdfa, state, Len(as_bytes(left)))

\* The last k in 1..upto with word[k] = c, 0 when there is none.
LastMatch(word, upto, c) ==
    LET hits == {k \in 1..upto : word[k] = c}
    IN  IF hits = {} THEN 0 ELSE CHOOSE k \in hits : \A j \in hits : j <= k

\* The row of left[1..i], i = Len(table), of the table of the edit distances
\* between prefixes of left and of right; table[k + 1] is the row of
\* left[1..k] and row is the part built of the new row.  Insertions, deletions
\* and substitutions cost 1.  In mode "restricted" a swap of two adjacent
\* characters costs 1 and the swapped pair takes no other edit (optimal
\* string alignment); in mode "unrestricted" characters may be inserted or
\* deleted between the swapped pair as well (Damerau-Levenshtein).
RECURSIVE EditRow(_, _, _, _, _)
EditRow(table, left, right, mode, row) ==
    IF Len(row) = Len(right) + 1 THEN row
    ELSE LET i == Len(table)
             c == Len(row)
             prev == table[i]
             subst == prev[c] + (IF left[i] = right[c] THEN 0 ELSE 1)
             base == Min(Min(prev[c + 1] + 1, row[c] + 1), subst)
             k == LastMatch(left, i - 1, right[c])
             l == LastMatch(right, c - 1, left[i])
             v == CASE mode = "restricted" /\ i >= 2 /\ c >= 2
                       /\ left[i] = right[c - 1] /\ left[i - 1] = right[c] ->
                           Min(base, table[i - 1][c - 1] + 1)
                    [] mode = "unrestricted" /\ k > 0 /\ l > 0 ->
                           Min(base, table[k][l] + (i - k - 1) + 1 + (c - l - 1))
                    [] OTHER -> base
         IN  EditRow(table, left, right, mode, Append(row, v))

RECURSIVE EditRows(_, _, _, _)
EditRows(table, left, right, mode) ==
    IF Len(table) = Len(left) + 1 THEN table
    ELSE EditRows(Append(table, EditRow(table, left, right, mode, <<Len(table)>>)),
                  left, right, mode)

EditDistance(left, right, mode) ==
    EditRows(<<[k \in 1..(Len(right) + 1) |-> k - 1]>>, left, right, mode)
        [Len(left) + 1][Len(right) + 1]

\* The Levenshtein distance, in characters (the levenshtein crate of tests.rs).
levenshtein(left, right) == EditDistance(left, right, "plain")

\* The restricted edit distance with transpositions (optimal string alignment).
RestrictedDistance(left, right) == EditDistance(left, right, "restricted")

\* The Damerau-Levenshtein distance: the least number of insertions,
\* deletions, substitutions and swaps of adjacent characters.
DamerauLevenshtein(left, right) == EditDistance(left, right, "unrestricted")

\* The least of f over the prefixes of text.
MinOverPrefixes(left, text, mode) ==
    LET ds == {EditDistance(left, SubSeq(text, 1, k), mode) : k \in 0..Len(text)}
    IN  CHOOSE d \in ds : \A e \in ds : d <= e

\* ------------------------------------------------------------ the program

\* The max distances builders are made for.
Distances == 0..2

\* Characters of the queries: 'a' and U+3042 (three bytes in UTF-8).
QueryChars == {97, 12354}

\* Characters of the evaluated texts: those of the queries and U+3043, which
\* shares its first two bytes with U+3042.
TextChars == QueryChars \cup {12355}

\* Bytes fed one at a time, whether or not they make up UTF-8: an ASCII byte,
\* continuation bytes, leading bytes of two, three and four bytes, and 0xFF.
ByteSample == {97, 129, 130, 169, 195, 227, 240, 255}

\* The sequences over chars of length at most len.
RECURSIVE SeqsUpTo(_, _)
SeqsUpTo(chars, len) ==
    IF len = 0 THEN {<<>>}
    ELSE LET shorter == SeqsUpTo(chars, len - 1)
         IN  shorter \cup {Append(w, c) : w \in shorter, c \in chars}

\* Queries of characters of two and four bytes: U+00E9, U+1F600 and U+1F601,
\* which shares its first three bytes with U+1F600.
WideQueries == {<<233, 128512>>, <<128512, 128513>>}

PlainQueries == SeqsUpTo(QueryChars, MaxQueryLen)

Queries == PlainQueries \cup WideQueries

\* The distances a caller compares.
DistanceValues ==
    {Exact(d) : d \in 0..MaxCompared} \cup {AtLeast(d) : d \in 0..MaxCompared}

\* No distance recorded yet (an Option<Distance> that is None).
NoDistance == [d |-> 0, kind |-> "None"]

\* No DFA built yet.
NoDFA == [transitions |-> <<>>, distances |-> <<>>, initial_state |-> 0]

VARIABLES
    max_distance,   \* LevenshteinNFA.max_distance of the builder
    damerau,        \* LevenshteinNFA.damerau of the builder
    parametric_dfa, \* LevenshteinAutomatonBuilder.parametric_dfa
    pc,             \* "ready" (builder made), "build" (in build_dfa's loop), "run" (DFA built)
    prefix,         \* build_dfa's prefix argument
    query,          \* build_dfa's query_chars
    psi,            \* build_dfa's parametric_state_index
    builder,        \* build_dfa's dfa_builder
    state_id,       \* build_dfa's loop variable
    dfa,            \* the DFA built
    state,          \* the DFA state reached by the bytes consumed
    text,           \* the characters whose bytes were fed, the last maybe in part
    pending,        \* the bytes of the last character of text not yet consumed
    walked,         \* whether bytes were fed that text does not record
    other,          \* the query of the DFA built before this one
    expected,       \* the distance that DFA gave the query of this one, or NoDistance
    lhs,            \* the left operand of a comparison of distances
    rhs,            \* its right operand
    ordering,       \* its result, "Unset" before
    index,          \* from_nfa's index of shapes (its items)
    transitions,    \* from_nfa's transitions
    shape_id,       \* from_nfa's loop variable state_id
    multistate,     \* a MultiState (its states), on its own or of an NFA run
    charset,        \* Alphabet.charset of an Alphabet on its own
    entry,          \* the place in charset of the vector last shifted and masked
    window_offset,  \* the offset of that shift_and_mask
    window_mask,    \* its mask
    window,         \* its result
    defined,        \* the add_state calls made on a Utf8DFABuilder on its own
    call            \* the last call made on it: its arguments, the builder before

builderVars == <<max_distance, damerau, parametric_dfa>>
buildVars == <<prefix, query, psi, builder, state_id>>
runVars == <<dfa, state, text, pending, walked>>
symVars == <<other, expected>>
cmpVars == <<lhs, rhs, ordering>>
shapeVars == <<index, transitions, shape_id>>
alphabetVars == <<charset, entry, window_offset, window_mask, window>>
partVars == <<alphabetVars, defined, call>>
unitVars == <<shapeVars, multistate, partVars>>
vars == <<builderVars, pc, buildVars, runVars, symVars, cmpVars, unitVars>>

\* No call made on a Utf8DFABuilder on its own.
NoCall ==
    [state_id |-> 0, default_successor |-> <<0, 0, 0, 0>>, op |-> "none",
     ids |-> {}, before |-> with_max_num_states(0)]

\* No Alphabet and no Utf8DFABuilder on their own.
NoParts ==
    /\ charset = <<>>
    /\ entry = 0
    /\ window_offset = 0
    /\ window_mask = 0
    /\ window = 0
    /\ defined = << >>
    /\ call = NoCall

\* Nothing built, nothing evaluated, nothing compared.
Idle ==
    /\ pc = "ready"
    /\ prefix = FALSE
    /\ query = <<>>
    /\ psi = ParametricStateIndex_new(0, 0)
    /\ builder = with_max_num_states(0)
    /\ state_id = 0
    /\ dfa = NoDFA
    /\ state = 0
    /\ text = <<>>
    /\ pending = <<>>
    /\ walked = FALSE
    /\ other = <<>>
    /\ expected = NoDistance
    /\ ordering = "Unset"
    /\ index = <<>>
    /\ transitions = <<>>
    /\ shape_id = 0
    /\ multistate = MultiStateEmpty
    /\ NoParts

\* LevenshteinAutomatonBuilder::new(max_distance, transposition_cost_one)
Init ==
    /\ max_distance \in Distances
    /\ damerau \in BOOLEAN
    /\ parametric_dfa = LevenshteinAutomatonBuilder(max_distance, damerau)
    /\ Idle
    /\ lhs = Exact(0)
    /\ rhs = Exact(0)

\* ParametricDFA::build_dfa(query, prefix) up to its loop.
EnterBuild(q, p) ==
    /\ LET start == BuildStart(parametric_dfa, q)
       IN  /\ psi' = start.psi
           /\ builder' = start.b
    /\ pc' = "build"
    /\ prefix' = p
    /\ query' = q
    /\ state_id' = 0

\* LevenshteinAutomatonBuilder::build_dfa(query)
BuildDfa(q) ==
    /\ pc = "ready"
    /\ EnterBuild(q, FALSE)
    /\ UNCHANGED <<builderVars, runVars, symVars, cmpVars, unitVars>>

\* LevenshteinAutomatonBuilder::build_prefix_dfa(query)
BuildPrefixDfa(q) ==
    /\ pc = "ready"
    /\ EnterBuild(q, TRUE)
    /\ UNCHANGED <<builderVars, runVars, symVars, cmpVars, unitVars>>

\* One pass of build_dfa's loop, for the parametric state state_id.
BuildLoop ==
    /\ pc = "build"
    /\ state_id # psi_num_states(psi)
    /\ ~BuildPassFails(parametric_dfa, query, psi, state_id)
    /\ LET pass == BuildPass(parametric_dfa, query, prefix, psi, builder, state_id)
       IN  /\ psi' = pass.psi
           /\ builder' = pass.b
    /\ state_id' = state_id + 1
    /\ UNCHANGED <<builderVars, pc, prefix, query, runVars, symVars, cmpVars, unitVars>>

\* The end of build_dfa: set_initial_state and build(); the initial state id
\* is the one the index gave ParametricDFA::initial_state().  The builder's
\* tables move into the DFA; its index is kept, to tell which DFA state stands
\* for which parametric state.  The caller then starts at DFA::initial_state.
BuildFinish ==
    /\ pc = "build"
    /\ state_id = psi_num_states(psi)
    /\ LET initial_state_id ==
               psi_get_or_allocate(psi, parametric_initial_state).id
           done == set_initial_state(builder, initial_state_id)
       IN  /\ dfa' = build(done)
           /\ builder' = [done EXCEPT !.transitions = <<>>, !.distances = <<>>]
           /\ state' = dfa_initial_state(build(done))
    /\ pc' = "run"
    /\ UNCHANGED <<builderVars, prefix, query, psi, state_id, text, pending,
                   walked, symVars, cmpVars, unitVars>>

\* DFA::transition on the first byte of the next character c of the text.
\* When the DFA is the second of a pair, the text fed is the query of the
\* first.
EvalChar(c) ==
    /\ pc = "run"
    /\ ~walked
    /\ pending = <<>>
    /\ Len(text) < MaxTextLen
    /\ expected # NoDistance => (Len(text) < Len(other) /\ c = other[Len(text) + 1])
    /\ state' = dfa_transition(dfa, state, Head(encode_utf8(c)))
    /\ text' = Append(text, c)
    /\ pending' = Tail(encode_utf8(c))
    /\ UNCHANGED <<builderVars, pc, buildVars, dfa, walked, symVars, cmpVars, unitVars>>

\* DFA::transition on the next byte of the character being consumed.
EvalByte ==
    /\ pc = "run"
    /\ pending # <<>>
    /\ state' = dfa_transition(dfa, state, Head(pending))
    /\ pending' = Tail(pending)
    /\ UNCHANGED <<builderVars, pc, buildVars, dfa, text, walked, symVars, cmpVars, unitVars>>

\* DFA::transition on any byte b, from the initial state on: the bytes need
\* not be UTF-8, and the text is not recorded.
TransitionByte(b) ==
    /\ pc = "run"
    /\ text = <<>>
    /\ expected = NoDistance
    /\ state' = dfa_transition(dfa, state, b)
    /\ walked' = TRUE
    /\ UNCHANGED <<builderVars, pc, buildVars, dfa, text, pending, symVars, cmpVars, unitVars>>

\* tests.rs test_symmetric, on DFAs: after the DFA of a query evaluated a
\* text, the same builder builds the DFA of that text, to evaluate the query.
Swap ==
    /\ pc = "run"
    /\ expected = NoDistance
    /\ ~walked
    /\ pending = <<>>
    /\ text \in PlainQueries
    /\ expected' = dfa_distance(dfa, state)
    /\ other' = query
    /\ EnterBuild(text, prefix)
    /\ dfa' = NoDFA
    /\ state' = 0
    /\ text' = <<>>
    /\ UNCHANGED <<builderVars, pending, walked, cmpVars, unitVars>>

\* A caller's lhs.partial_cmp(&rhs).
Compare ==
    /\ ordering = "Unset"
    /\ ordering' = partial_cmp(lhs, rhs)
    /\ UNCHANGED <<builderVars, pc, buildVars, runVars, symVars, lhs, rhs, unitVars>>

Next ==
    \/ \E q \in Queries : BuildDfa(q)
    \/ \E q \in Queries : BuildPrefixDfa(q)
    \/ BuildLoop
    \/ BuildFinish
    \/ \E c \in TextChars : EvalChar(c)
    \/ EvalByte
    \/ \E b \in ByteSample : TransitionByte(b)

Spec == Init /\ [][Next]_vars

\* Pairs of DFAs of one builder, without prefix, for two strings of the
\* characters of queries: each evaluates the query of the other.
NextSym ==
    \/ \E q \in PlainQueries : BuildDfa(q)
    \/ BuildLoop
    \/ BuildFinish
    \/ \E c \in QueryChars : EvalChar(c)
    \/ EvalByte
    \/ Swap

SpecSym == Init /\ [][NextSym]_vars

\* Comparisons of two distances.
InitOrder ==
    /\ max_distance = 0
    /\ damerau = FALSE
    /\ parametric_dfa = LevenshteinAutomatonBuilder(max_distance, damerau)
    /\ Idle
    /\ lhs \in DistanceValues
    /\ rhs \in DistanceValues

NextOrder == Compare

SpecOrder == InitOrder /\ [][NextOrder]_vars

\* ParametricDFA::from_nfa, one shape of its worklist at a time, for the
\* distances of the benches of bench.rs (with transposition, up to the
\* distances of Distances).
ShapeDistances == 0..3

\* No parametric DFA yet.
NoParametricDFA ==
    [distance |-> <<>>, max_distance |-> 0, transitions |-> <<>>,
     diameter |-> 0, transition_stride |-> 0, shapes |-> <<>>]

\* from_nfa up to its loop: the index holds the empty MultiState and the
\* initial one.
InitShapes ==
    /\ max_distance \in ShapeDistances
    /\ damerau \in BOOLEAN
    /\ damerau => max_distance \in Distances
    /\ parametric_dfa = NoParametricDFA
    /\ pc = "from_nfa"
    /\ prefix = FALSE
    /\ query = <<>>
    /\ psi = ParametricStateIndex_new(0, 0)
    /\ builder = with_max_num_states(0)
    /\ state_id = 0
    /\ dfa = NoDFA
    /\ state = 0
    /\ text = <<>>
    /\ pending = <<>>
    /\ walked = FALSE
    /\ other = <<>>
    /\ expected = NoDistance
    /\ lhs = Exact(0)
    /\ rhs = Exact(0)
    /\ ordering = "Unset"
    /\ index = index_get_or_allocate(
                   index_get_or_allocate(<<>>, MultiStateEmpty).items,
                   initial_states).items
    /\ transitions = <<>>
    /\ shape_id = 0
    /\ multistate = MultiStateEmpty
    /\ NoParts

\* One pass of from_nfa's for state_id in 0.. loop: the transitions of the
\* shape shape_id for every chi, in order.
FromNfaShape ==
    /\ pc = "from_nfa"
    /\ shape_id # Len(index)
    /\ LET num_chi == Pow2(multistate_diameter(max_distance))
           acc == FromNfaPasses(max_distance, damerau,
                                [items |-> index, transitions |-> transitions],
                                shape_id * num_chi, (shape_id + 1) * num_chi)
       IN  /\ index' = acc.items
           /\ transitions' = acc.transitions
    /\ shape_id' = shape_id + 1
    /\ UNCHANGED <<builderVars, pc, buildVars, runVars, symVars, cmpVars,
                   multistate, partVars>>

\* The end of from_nfa: the distance table and the ParametricDFA.
FromNfaFinish ==
    /\ pc = "from_nfa"
    /\ shape_id = Len(index)
    /\ parametric_dfa' =
           [distance |-> DistanceTable(max_distance, index),
            max_distance |-> max_distance,
            transitions |-> transitions,
            diameter |-> multistate_diameter(max_distance),
            transition_stride |-> Pow2(multistate_diameter(max_distance)),
            shapes |-> index]
    /\ pc' = "ready"
    /\ UNCHANGED <<max_distance, damerau, buildVars, runVars, symVars, cmpVars,
                   unitVars>>

NextShapes == FromNfaShape \/ FromNfaFinish

SpecShapes == InitShapes /\ [][NextShapes]_vars

\* The DFAs of max distance 2 for the query of tests.rs test_levenshtein_dfa,
\* "abcabcaaabc", and for a query of eight characters of four bytes that
\* differ in their first or second byte: U+10000, U+50000, U+90000, U+D0000,
\* U+11000, U+51000, U+91000, U+D1000.
ScenarioQueries ==
    {<<97, 98, 99, 97, 98, 99, 97, 97, 97, 98, 99>>,
     <<65536, 327680, 589824, 851968, 69632, 331776, 593920, 856064>>}

InitScenario ==
    /\ max_distance = 2
    /\ damerau \in BOOLEAN
    /\ parametric_dfa = LevenshteinAutomatonBuilder(max_distance, damerau)
    /\ Idle
    /\ lhs = Exact(0)
    /\ rhs = Exact(0)

NextScenario ==
    \/ \E q \in ScenarioQueries : BuildDfa(q)
    \/ BuildLoop
    \/ BuildFinish

SpecScenario == InitScenario /\ [][NextScenario]_vars

\* A MultiState on its own: states added one at a time, normalized, cleared,
\* and taken through the transitions of an NFA.
NFAStates ==
    {NFAState(o, d, t) : o \in 0..MaxOffset, d \in 0..MaxStateDistance,
                         t \in BOOLEAN}

\* Characteristic vectors for the transitions: no match, a match at the
\* offset, one or two characters further, and several at once.
ChiSample == {0, 1, 2, 3, 4, 6}

InitMulti ==
    /\ max_distance = MaxStateDistance
    /\ damerau \in BOOLEAN
    /\ parametric_dfa = NoParametricDFA
    /\ Idle
    /\ lhs = Exact(0)
    /\ rhs = Exact(0)

\* MultiState::add_state(new_state)
AddState(new_state) ==
    /\ multistate' = add_state(multistate, new_state)
    /\ UNCHANGED <<builderVars, pc, buildVars, runVars, symVars, cmpVars,
                   shapeVars, partVars>>

\* MultiState::normalize
Normalize ==
    /\ multistate' = normalize(multistate).states
    /\ UNCHANGED <<builderVars, pc, buildVars, runVars, symVars, cmpVars,
                   shapeVars, partVars>>

\* MultiState::clear
Clear ==
    /\ multistate' = MultiStateEmpty
    /\ UNCHANGED <<builderVars, pc, buildVars, runVars, symVars, cmpVars,
                   shapeVars, partVars>>

\* LevenshteinNFA::transition from the MultiState, the destination taking
\* its place (offsets kept within MaxOffset).
MultiTransition(chi) ==
    /\ LET dest_state == nfa_transition(max_distance, damerau, multistate, chi)
       IN  /\ \A i \in 1..Len(dest_state) : dest_state[i].offset <= MaxOffset
           /\ multistate' = dest_state
    /\ UNCHANGED <<builderVars, pc, buildVars, runVars, symVars, cmpVars,
                   shapeVars, partVars>>

NextMulti ==
    \/ \E new_state \in NFAStates : AddState(new_state)
    \/ Normalize
    \/ Clear
    \/ \E chi \in ChiSample : MultiTransition(chi)

SpecMulti == InitMulti /\ [][NextMulti]_vars

\* ------------------------------------------------------------------ claims

\* LevenshteinNFA::levenshtein(max_distance, false) on its own, for the
\* distances test_levenshtein_nfa_util tries.
InitNfa ==
    /\ max_distance \in ShapeDistances
    /\ damerau = FALSE
    /\ parametric_dfa = NoParametricDFA
    /\ Idle
    /\ lhs = Exact(0)
    /\ rhs = Exact(0)

\* LevenshteinNFA::compute_distance(q, other) up to its loop.
ComputeDistance(q) ==
    /\ pc' = "compute_distance"
    /\ query' = q
    /\ text' = <<>>
    /\ multistate' = initial_states
    /\ UNCHANGED <<builderVars, prefix, psi, builder, state_id, dfa, state,
                   pending, walked, symVars, cmpVars, shapeVars,
                   partVars>>

\* One pass of its loop, chr the next character of other: text is what the
\* loop has consumed of other, multistate is current_state.
ComputeDistanceChar(chr) ==
    /\ pc = "compute_distance"
    /\ Len(text) < MaxTextLen
    /\ text' = Append(text, chr)
    /\ multistate' = nfa_transition(max_distance, damerau, multistate,
                           compute_characteristic_vector(query, chr))
    /\ UNCHANGED <<builderVars, pc, buildVars, dfa, state, pending, walked,
                   symVars, cmpVars, shapeVars,
                   partVars>>

NextNfa ==
    \/ \E q \in PlainQueries : ComputeDistance(q)
    \/ \E chr \in TextChars : ComputeDistanceChar(chr)

SpecNfa == InitNfa /\ [][NextNfa]_vars

\* The two worklists one after the other: from_nfa for a builder, then
\* build_dfa or build_prefix_dfa for a query.  Each loop runs in one thread
\* with nothing to wait for, so a pass that can run does run.
InitWork ==
    /\ InitShapes
    /\ max_distance \in Distances

NextWork ==
    \/ FromNfaShape
    \/ FromNfaFinish
    \/ \E q \in Queries : BuildDfa(q)
    \/ \E q \in Queries : BuildPrefixDfa(q)
    \/ BuildLoop
    \/ BuildFinish

\* The steps of the worklists by their guards and their counters: a step of
\* FromNfaShape is one of FromNfaAdvance and is possible exactly when
\* FromNfaAdvance is, and so on for the other three.
FromNfaAdvance ==
    pc = "from_nfa" /\ shape_id # Len(index) /\ shape_id' = shape_id + 1

FromNfaReturn ==
    pc = "from_nfa" /\ shape_id = Len(index) /\ pc' = "ready"

BuildAdvance ==
    /\ pc = "build"
    /\ state_id # psi_num_states(psi)
    /\ ~BuildPassFails(parametric_dfa, query, psi, state_id)
    /\ state_id' = state_id + 1

BuildReturn ==
    pc = "build" /\ state_id = psi_num_states(psi) /\ pc' = "run"

SpecWork ==
    /\ InitWork
    /\ [][NextWork]_vars
    /\ WF_shape_id(FromNfaAdvance)
    /\ WF_pc(FromNfaReturn)
    /\ WF_state_id(BuildAdvance)
    /\ WF_pc(BuildReturn)

\* An Alphabet on its own, for the queries of alphabet.rs test_alphabet
\* ("happy") and test_long_characteristic (37 characters), a query of 32
\* characters, one whole word, and one of 65 characters, three words, with
\* 'b' on both sides of the two word boundaries.
AlphabetQueries ==
    {<<104, 97, 112, 112, 121>>,
     <<97, 97, 97, 97, 97, 97, 97, 97, 97, 97, 97, 97, 97, 97, 97, 97, 97,
       97, 97, 97, 97, 97, 97, 97, 97, 97, 97, 97, 97, 97, 98, 99, 97, 98,
       101, 119, 97>>,
     <<97, 97, 97, 97, 97, 97, 97, 97, 97, 97, 97, 97, 97, 97, 97, 97, 97,
       97, 97, 97, 97, 97, 97, 97, 97, 97, 97, 97, 97, 97, 97, 98>>,
     <<97, 97, 97, 97, 97, 97, 97, 97, 97, 97, 97, 97, 97, 97, 97, 97, 97,
       97, 97, 97, 97, 97, 97, 97, 97, 97, 97, 97, 97, 97, 97, 98, 98, 97,
       97, 97, 97, 97, 97, 97, 97, 97, 97, 97, 97, 97, 97, 97, 97, 97, 97,
       97, 97, 97, 97, 97, 97, 97, 97, 97, 97, 97, 97, 98, 98>>}

\* The masks build_dfa passes: (1 << diameter) - 1 for the max distances 0..3.
WindowMasks == {Pow2(multistate_diameter(n)) - 1 : n \in ShapeDistances}

InitAlphabet ==
    /\ max_distance = 0
    /\ damerau = FALSE
    /\ parametric_dfa = NoParametricDFA
    /\ Idle
    /\ lhs = Exact(0)
    /\ rhs = Exact(0)

\* Alphabet::for_query_chars(q)
ForQueryChars(q) ==
    /\ pc = "ready"
    /\ pc' = "alphabet"
    /\ query' = q
    /\ charset' = for_query_chars(q)
    /\ UNCHANGED <<builderVars, prefix, psi, builder, state_id, runVars,
                   symVars, cmpVars, shapeVars, multistate, entry,
                   window_offset, window_mask, window, defined,
                   call>>

\* shift_and_mask(offset, mask) on the vector of the k-th entry of the
\* alphabet, for an offset up to the length of the query.
ShiftAndMask(k, offset, mask) ==
    /\ pc = "alphabet"
    /\ k \in 1..Len(charset)
    /\ offset \in 0..Len(query)
    /\ entry' = k
    /\ window_offset' = offset
    /\ window_mask' = mask
    /\ window' = shift_and_mask(charset[k][2], offset, mask)
    /\ UNCHANGED <<builderVars, pc, buildVars, runVars, symVars, cmpVars,
                   shapeVars, multistate, charset, defined, call>>

NextAlphabet ==
    \/ \E q \in AlphabetQueries : ForQueryChars(q)
    \/ \E k \in 1..Len(charset), offset \in 0..Len(query), mask \in WindowMasks :
           ShiftAndMask(k, offset, mask)

SpecAlphabet == InitAlphabet /\ [][NextAlphabet]_vars

\* A Utf8DFABuilder on its own, as in dfa.rs test_utf8_dfa_builder: states
\* are added with a distance and a default successor, no transition is. The
\* distance of a state is the one the test gives it: Exact(1) to the even
\* states, Exact(0) to the odd ones.
BuilderDistance(s) == Exact((s + 1) % 2)

InitBuilder ==
    /\ max_distance = 0
    /\ damerau = FALSE
    /\ parametric_dfa = NoParametricDFA
    /\ Idle
    /\ lhs = Exact(0)
    /\ rhs = Exact(0)

\* Utf8DFABuilder::with_max_num_states(n)
WithMaxNumStates(n) ==
    /\ pc = "ready"
    /\ pc' = "builder"
    /\ builder' = with_max_num_states(n)
    /\ UNCHANGED <<builderVars, prefix, query, psi, state_id, runVars, symVars,
                   cmpVars, unitVars>>

\* dfa_builder.add_state(s, d, t): s below max_num_states (the assert) and
\* every bucket of t inside the index (t * 4 + 3 < index.len()).
DfaAddState(s, d, t) ==
    /\ pc = "builder"
    /\ s < builder.max_num_states
    /\ Utf8StateId_predecessor(t, 3) < builder.index_len
    /\ builder' = dfa_add_state(builder, s, d, t).b
    /\ defined' = (s :> t) @@ defined
    /\ UNCHANGED <<builderVars, pc, prefix, query, psi, state_id, runVars,
                   symVars, cmpVars, shapeVars, multistate, alphabetVars,
                   call>>

\* dfa_builder.set_initial_state(s), once the states are added
SetInitialState(s) ==
    /\ pc = "builder"
    /\ pc' = "initial"
    /\ Utf8StateId_original(s) < builder.index_len
    /\ builder' = set_initial_state(builder, s)
    /\ UNCHANGED <<builderVars, prefix, query, psi, state_id, runVars,
                   symVars, cmpVars, unitVars>>

\* dfa_builder.build(), with the initial state set or left at 0
Build ==
    /\ pc \in {"builder", "initial"}
    /\ pc' = "built"
    /\ dfa' = build(builder)
    /\ UNCHANGED <<builderVars, buildVars, state, text, pending, walked,
                   symVars, cmpVars, unitVars>>

NextBuilder ==
    \/ \E n \in 1..MaxNumStates : WithMaxNumStates(n)
    \/ \E s \in 0..(MaxNumStates - 1), t \in 0..(MaxNumStates - 1) :
           DfaAddState(s, BuilderDistance(s), t)
    \/ \E s \in 0..(MaxNumStates - 1) : SetInitialState(s)
    \/ Build

SpecBuilder == InitBuilder /\ [][NextBuilder]_vars

\* A Utf8DFABuilder on its own, called with state ids of every size: the
\* ids lower than max_num_states, max_num_states itself and the one above.
\* self.index[state_bucket] panics when state_bucket is not inside the index.
InIndex(b, state_bucket) == state_bucket < b.index_len

\* The characters given to add_transition: of one byte and of three bytes.
TransitionChars == {97, 12354}

\* The for num_bytes in 1..4 loop of add_state up to the first
\* get_or_allocate that panics, if one does.
RECURSIVE PredecessorChainInIndex(_, _, _, _)
PredecessorChainInIndex(b, predecessor_states, default_successor_orig, num_bytes) ==
    IF num_bytes >= 4
    THEN [b |-> b, predecessor_states |-> predecessor_states, panicked |-> FALSE]
    ELSE IF ~InIndex(b, Utf8StateId_predecessor(default_successor_orig, num_bytes))
    THEN [b |-> b, predecessor_states |-> predecessor_states, panicked |-> TRUE]
    ELSE LET g == dfa_get_or_allocate(b,
                    Utf8StateId_predecessor(default_successor_orig, num_bytes))
             succ == predecessor_states[num_bytes]
             filled == [g.b EXCEPT !.transitions[g.id + 1] = fill(@, 0, 256, succ)]
         IN  PredecessorChainInIndex(filled,
                [predecessor_states EXCEPT ![num_bytes + 1] = g.id],
                default_successor_orig, num_bytes + 1)

\* Utf8DFABuilder::add_state with its panics: the assert on state, then the
\* index of get_or_allocate on the default successor and on each of its
\* predecessors. The builder is the one the panic leaves.
add_state_or_panic(b, state_orig, distance, default_successor_orig) ==
    IF ~(state_orig < b.max_num_states)
    THEN [b |-> b, state_id |-> 0, default_successor |-> <<0, 0, 0, 0>>,
          panicked |-> TRUE]
    ELSE LET g1 == dfa_get_or_allocate(b, Utf8StateId_original(state_orig))
             b1 == [g1.b EXCEPT !.distances[g1.id + 1] = distance]
         IN  IF ~InIndex(b1, Utf8StateId_original(default_successor_orig))
             THEN [b |-> b1, state_id |-> 0, default_successor |-> <<0, 0, 0, 0>>,
                   panicked |-> TRUE]
             ELSE LET g2 == dfa_get_or_allocate(b1,
                                Utf8StateId_original(default_successor_orig))
                      chain == PredecessorChainInIndex(g2.b,
                                   <<g2.id, g2.id, g2.id, g2.id>>,
                                   default_successor_orig, 1)
                      added == dfa_add_state(b, state_orig, distance,
                                             default_successor_orig)
                  IN  IF chain.panicked
                      THEN [b |-> chain.b, state_id |-> 0,
                            default_successor |-> <<0, 0, 0, 0>>, panicked |-> TRUE]
                      ELSE [b |-> added.b, state_id |-> added.state_id,
                            default_successor |-> added.default_successor,
                            panicked |-> FALSE]

\* Utf8DFAStateBuilder::add_transition with its panic: the index of
\* get_or_allocate on to_state_id, after the loop over the first bytes.
add_transition_or_panic(b, from_state_id, default_successor, chr, to_state_id) ==
    LET bytes == encode_utf8(chr)
        chain == AddTransitionChain(b, default_successor, bytes, from_state_id, 0)
    IN  IF ~InIndex(chain.b, Utf8StateId_original(to_state_id))
        THEN [b |-> chain.b, panicked |-> TRUE]
        ELSE [b |-> add_transition(b, from_state_id, default_successor, chr,
                                   to_state_id),
              panicked |-> FALSE]

\* Utf8DFABuilder::set_initial_state with its panic: the index of
\* get_or_allocate.
set_initial_state_or_panic(b, initial_state) ==
    IF ~InIndex(b, Utf8StateId_original(initial_state))
    THEN [b |-> b, panicked |-> TRUE]
    ELSE [b |-> set_initial_state(b, initial_state), panicked |-> FALSE]

\* dfa_builder.add_state(s, d, t), whatever s and t are, for a state s
\* that was not added before (build_dfa and the test add a state once).
CallAddState(s, d, t) ==
    /\ pc = "builder"
    /\ s \notin DOMAIN defined
    /\ LET outcome == add_state_or_panic(builder, s, d, t)
       IN  /\ builder' = outcome.b
           /\ pc' = IF outcome.panicked THEN "panic" ELSE "builder"
           /\ defined' = IF outcome.panicked THEN defined
                         ELSE (s :> t) @@ defined
           /\ call' = [state_id |-> outcome.state_id,
                       default_successor |-> outcome.default_successor,
                       op |-> "add_state", ids |-> {s, t}, before |-> builder]
    /\ UNCHANGED <<builderVars, prefix, query, psi, state_id, runVars,
                   symVars, cmpVars, shapeVars, multistate, alphabetVars>>

\* add_transition(chr, to) on the Utf8DFAStateBuilder that the last
\* add_state returned, which borrows the builder until it is dropped.
CallAddTransition(chr, to) ==
    /\ pc = "builder"
    /\ call.op \in {"add_state", "add_transition"}
    /\ LET outcome == add_transition_or_panic(builder, call.state_id,
                           call.default_successor, chr, to)
       IN  /\ builder' = outcome.b
           /\ pc' = IF outcome.panicked THEN "panic" ELSE "builder"
           /\ call' = [call EXCEPT !.op = "add_transition", !.ids = {to},
                                   !.before = builder]
    /\ UNCHANGED <<builderVars, prefix, query, psi, state_id, runVars,
                   symVars, cmpVars, shapeVars, multistate, alphabetVars,
                   defined>>

\* dfa_builder.set_initial_state(s), whatever s is
CallSetInitialState(s) ==
    /\ pc = "builder"
    /\ LET outcome == set_initial_state_or_panic(builder, s)
       IN  /\ builder' = outcome.b
           /\ pc' = IF outcome.panicked THEN "panic" ELSE "builder"
           /\ call' = [NoCall EXCEPT !.op = "set_initial_state", !.ids = {s},
                                     !.before = builder]
    /\ UNCHANGED <<builderVars, prefix, query, psi, state_id, runVars,
                   symVars, cmpVars, shapeVars, multistate, alphabetVars,
                   defined>>

\* The state ids given to a builder of at most MaxNumStates - 1 states.
CallIds == 0..MaxNumStates

NextCalls ==
    \/ \E n \in 1..(MaxNumStates - 1) : WithMaxNumStates(n)
    \/ \E s \in CallIds, t \in CallIds : CallAddState(s, BuilderDistance(s), t)
    \/ \E chr \in TransitionChars, to \in CallIds : CallAddTransition(chr, to)
    \/ \E s \in CallIds : CallSetInitialState(s)
    \/ Build

SpecCalls == InitBuilder /\ [][NextCalls]_vars

\* The DFA has consumed the bytes of text, all of them.
Settled == pc = "run" /\ pending = <<>> /\ ~walked

\* The DFA is built and has consumed nothing.
Fresh == Settled /\ text = <<>>

\* The distances a DFA of max distance n reports of a text.
Reported(n) == {Exact(d) : d \in 0..n} \cup {AtLeast(n + 1)}

\* The DFA state that stands for the parametric state of id id, or None.
StateOf(id) == OptGet(builder.index, Utf8StateId_original(id))

\* The DFA state that stands for the parametric state p, or None.
StateOfParametric(p) ==
    LET id == OptGet(psi.state_index, psi_bucket(psi, p))
    IN  IF id = None THEN None ELSE StateOf(id)

\* The characteristic vector of c in the window of the query that starts at
\* offset and is diameter long: bit i tells whether query[offset + i] is c.
RECURSIVE Chi(_, _, _)
Chi(c, offset, width) ==
    IF width = 0 THEN 0
    ELSE (IF offset + 1 <= Len(query) /\ query[offset + 1] = c THEN 1 ELSE 0)
         + 2 * Chi(c, offset + 1, width - 1)

\* The parametric state after the parametric transition of c from p.
ParametricStep(p, c) ==
    apply(pdfa_transition(parametric_dfa, p,
                          Chi(c, p.offset, parametric_dfa.diameter)), p)

\* The parametric state after one parametric transition per character.
RECURSIVE ParametricRun(_, _)
ParametricRun(p, chars) ==
    IF chars = <<>> THEN p
    ELSE ParametricRun(ParametricStep(p, Head(chars)), Tail(chars))

\* Whether build_dfa froze the parametric state p as a sink of the prefix DFA.
Frozen(p) == prefix /\ is_prefix_sink(parametric_dfa, p, Len(query))

\* Characters of one to four bytes, in and out of the queries: 'a', 'b',
\* U+00E9, U+00EA, U+3042, U+3043, U+1F600, U+1F601.
Utf8Sample == {97, 98, 233, 234, 12354, 12355, 128512, 128513}

\* The partial order of distances as the specification states it: Exact(a)
\* and Exact(b) as a and b; Exact(a) < AtLeast(b) exactly when a < b, and
\* AtLeast(b) > Exact(a) then; AtLeast(a) and AtLeast(b) equal when a = b;
\* incomparable otherwise.
DistanceOrder(left, right) ==
    CASE left.kind = "Exact" /\ right.kind = "Exact" ->
            IF left.d < right.d THEN "Less"
            ELSE IF left.d = right.d THEN "Equal" ELSE "Greater"
      [] left.kind = "Exact" /\ right.kind = "AtLeast" ->
            IF left.d < right.d THEN "Less" ELSE "None"
      [] left.kind = "AtLeast" /\ right.kind = "Exact" ->
            IF right.d < left.d THEN "Greater" ELSE "None"
      [] OTHER ->
            IF left.d = right.d THEN "Equal" ELSE "None"

\* C1: the DFA of build_dfa without transposition gives a text its
\* Levenshtein distance to the query, counted in characters, as Exact(d) when
\* d <= max_distance and as AtLeast(max_distance + 1) otherwise.
C1_Exactness ==
    (Settled /\ ~prefix /\ ~damerau) =>
        dfa_distance(dfa, state)
            = make_distance(levenshtein(query, text), max_distance)

\* A text of multi-byte characters at distance 2 of the query, reported so.
C1_Witness ==
    /\ Settled /\ ~prefix /\ ~damerau /\ max_distance = 2
    /\ query = <<97, 12354, 97>>
    /\ text = <<12354, 12355>>
    /\ dfa_distance(dfa, state) = Exact(2)

\* C2 as stated: with transposition the DFA gives the Damerau-Levenshtein
\* distance (insertions, deletions, substitutions and swaps of adjacent
\* characters, each of cost 1).
C2_DamerauLevenshtein ==
    (Settled /\ ~prefix /\ damerau) =>
        dfa_distance(dfa, state)
            = make_distance(DamerauLevenshtein(query, text), max_distance)

\* C2, amended: with transposition the DFA gives the restricted distance, in
\* which a swap of two adjacent characters costs 1 and the swapped pair takes
\* no further edit.
C2_RestrictedDistance ==
    (Settled /\ ~prefix /\ damerau) =>
        dfa_distance(dfa, state)
            = make_distance(RestrictedDistance(query, text), max_distance)

\* A swap of two adjacent characters reported as one edit.
C2_Witness ==
    /\ Settled /\ ~prefix /\ damerau /\ max_distance = 1
    /\ query = <<97, 12354>>
    /\ text = <<12354, 97>>
    /\ levenshtein(query, text) = 2
    /\ dfa_distance(dfa, state) = Exact(1)

\* C3: the DFA built for B gives A the distance the DFA built for A gave B,
\* with the same max distance and the same transposition flag, and so does
\* LevenshteinNFA::compute_distance.
C3_Symmetry ==
    (pc = "run" /\ expected # NoDistance /\ pending = <<>> /\ text = other) =>
        /\ dfa_distance(dfa, state) = expected
        /\ nfa_compute_distance(max_distance, damerau, query, other)
             = nfa_compute_distance(max_distance, damerau, other, query)

\* Two strings of different lengths, one edit apart, compared both ways.
C3_Witness ==
    /\ pc = "run" /\ expected = Exact(1) /\ pending = <<>> /\ text = other
    /\ Len(other) = 3 /\ Len(query) = 2
    /\ dfa_distance(dfa, state) = Exact(1)

\* C4 as stated: state 0 of a built DFA is absorbing: transition(0, b) = 0
\* for every byte b, and distance(0) = AtLeast(max_distance + 1).
C4_SinkAbsorbing ==
    Fresh =>
        /\ \A b \in 0..(U8 - 1) : dfa_transition(dfa, SINK_STATE, b) = SINK_STATE
        /\ dfa_distance(dfa, SINK_STATE) = AtLeast(max_distance + 1)

\* C5 as stated: the DFA of build_prefix_dfa gives a text the least distance
\* between the query and a prefix of the text (the distance of the builder's
\* flag).
C5_PrefixMinimum ==
    (Settled /\ prefix) =>
        dfa_distance(dfa, state)
            = make_distance(
                MinOverPrefixes(query, text,
                                IF damerau THEN "restricted" ELSE "plain"),
                max_distance)

\* C6 as stated: for the prefix DFA, eval(P) >= eval(X) for every prefix P of
\* X, under the partial order of distances, whenever the two are comparable.
C6_PrefixMonotone ==
    (Settled /\ prefix) =>
        \A k \in 0..Len(text) :
            DistanceOrder(eval(dfa, as_bytes(SubSeq(text, 1, k))),
                          dfa_distance(dfa, state))
                \in {"Greater", "Equal", "None"}

\* C6 with Distance::partial_cmp for the order, as a caller's
\* eval(P) >= eval(X) computes it.
C6_PrefixMonotoneCmp ==
    (Settled /\ prefix) =>
        \A k \in 0..Len(text) :
            partial_cmp(eval(dfa, as_bytes(SubSeq(text, 1, k))),
                        dfa_distance(dfa, state))
                \in {"Greater", "Equal", "None"}

\* C7 as stated: Distance::partial_cmp implements that order.
C7_PartialOrder ==
    ordering # "Unset" => ordering = DistanceOrder(lhs, rhs)

C9_CharacterStep ==
    Fresh =>
        \A id \in 0..(psi_num_states(psi) - 1) : \A c \in Utf8Sample :
            EvalFrom(dfa, StateOf(id), encode_utf8(c))
                = StateOfParametric(ParametricStep(psi_get(psi, id), c))

\* C9, amended: so it is from every state that build_dfa did not freeze as a
\* sink of the prefix DFA, and a frozen state comes back to itself; a text
\* fed byte by byte to a DFA without prefix ends on the state of one
\* parametric transition per character.
C9_CharacterStepUnfrozen ==
    /\ Fresh =>
           \A id \in 0..(psi_num_states(psi) - 1) : \A c \in Utf8Sample :
               EvalFrom(dfa, StateOf(id), encode_utf8(c))
                   = IF Frozen(psi_get(psi, id)) THEN StateOf(id)
                     ELSE StateOfParametric(ParametricStep(psi_get(psi, id), c))
    /\ (Settled /\ ~prefix) =>
           state = StateOfParametric(ParametricRun(parametric_initial_state, text))

\* A DFA whose query has characters of two and four bytes: from one of its
\* states the bytes of a character of the query and those of another
\* four-byte character part after a shared first byte.
C9_Witness ==
    /\ Fresh /\ ~prefix /\ query = <<233, 128512>> /\ max_distance = 2
    /\ \E id \in 0..(psi_num_states(psi) - 1) :
           /\ EvalFrom(dfa, StateOf(id), encode_utf8(128512)) # SINK_STATE
           /\ EvalFrom(dfa, StateOf(id), encode_utf8(128512))
                # EvalFrom(dfa, StateOf(id), encode_utf8(128513))
           /\ EvalFrom(dfa, StateOf(id), encode_utf8(128512))
                = StateOfParametric(ParametricStep(psi_get(psi, id), 128512))

\* C10: in a built DFA, transition(s, b) < num_states() for every state
\* s < num_states() and every byte b, and the state after any bytes is below
\* num_states().
C10_TransitionsInBounds ==
    /\ Fresh =>
           \A s \in 0..(dfa_num_states(dfa) - 1) : \A b \in 0..(U8 - 1) :
               dfa_transition(dfa, s, b) \in 0..(dfa_num_states(dfa) - 1)
    /\ pc = "run" => state \in 0..(dfa_num_states(dfa) - 1)

\* Bytes that are not UTF-8 have been fed and lead to a state that is not
\* the sink.
C10_Witness ==
    /\ pc = "run" /\ walked
    /\ state # SINK_STATE
    /\ state \in 0..(dfa_num_states(dfa) - 1)
    /\ dfa_distance(dfa, state) = AtLeast(255)

\* The states one byte away from the state s of a DFA.
ByteSuccessors(self, s) == {dfa_transition(self, s, b) : b \in 0..(U8 - 1)}

\* The states that bytes lead to from the states of frontier, seen included.
RECURSIVE ReachableFrom(_, _, _)
ReachableFrom(self, seen, frontier) ==
    IF frontier = {} THEN seen
    ELSE LET next == UNION {ByteSuccessors(self, s) : s \in frontier}
         IN  ReachableFrom(self, seen \cup frontier, next \ (seen \cup frontier))

\* The states from which some bytes lead to a state of the set alive, alive
\* included.
RECURSIVE CanReach(_, _)
CanReach(self, alive) ==
    LET more == {s \in 0..(dfa_num_states(self) - 1) :
                    s \notin alive /\ ByteSuccessors(self, s) \cap alive # {}}
    IN  IF more = {} THEN alive ELSE CanReach(self, alive \cup more)

\* The states of a DFA whose distance is Exact.
ExactStates(self) ==
    {s \in 0..(dfa_num_states(self) - 1) : dfa_distance(self, s).kind = "Exact"}

\* C11 as stated: in a DFA of build_dfa, from every state but state 0 that
\* bytes reach from the initial state, some bytes lead to a state of Exact
\* distance, and none do from state 0.
C11_OnlySink ==
    (Fresh /\ ~prefix) =>
        LET alive == CanReach(dfa, ExactStates(dfa))
        IN  /\ SINK_STATE \notin alive
            /\ \A s \in ReachableFrom(dfa, {}, {dfa_initial_state(dfa)}) :
                   s # SINK_STATE => s \in alive

\* C12: without transposition, from_nfa enumerates 6 shapes for max distance
\* 1, 31 for 2 and 197 for 3, the empty one counted.
C12_ShapeCounts ==
    (pc = "ready" /\ ~damerau /\ max_distance \in 1..3) =>
        /\ pdfa_num_states(parametric_dfa)
             = (CASE max_distance = 1 -> 6
                  [] max_distance = 2 -> 31
                  [] max_distance = 3 -> 197)
        /\ Len(index) = pdfa_num_states(parametric_dfa)
        /\ index[1] = MultiStateEmpty

\* from_nfa has ended for max distance 3 without transposition.
C12_Witness ==
    /\ pc = "ready" /\ ~damerau /\ max_distance = 3
    /\ shape_id = 197
    /\ Len(parametric_dfa.transitions) = 197 * 128

\* C13: with transposition, from_nfa enumerates 8 shapes for max distance 1.
C13_ShapeCountDamerau ==
    (pc = "ready" /\ damerau /\ max_distance = 1) =>
        pdfa_num_states(parametric_dfa) = 8

\* from_nfa has ended for max distance 1 with transposition, a shape with a
\* state in transposition among the shapes.
C13_Witness ==
    /\ pc = "ready" /\ damerau /\ max_distance = 1
    /\ shape_id = 8
    /\ \E k \in 1..Len(index) : \E i \in 1..Len(index[k]) : index[k][i].in_transpose

\* C14: the DFA of build_dfa for "abcabcaaabc" with max distance 2 and no
\* transposition has 273 states: those of the 141 parametric states met, the
\* sink among them, and those of the chains of their default successors.
C14_NumStates ==
    (pc = "run" /\ ~prefix /\ ~damerau /\ max_distance = 2
        /\ query = <<97, 98, 99, 97, 98, 99, 97, 97, 97, 98, 99>>) =>
        /\ dfa_num_states(dfa) = 273
        /\ psi_num_states(psi) = 141
        /\ builder.num_states = dfa_num_states(dfa)

\* That DFA is built.
C14_Witness ==
    /\ pc = "run" /\ ~prefix /\ ~damerau /\ max_distance = 2
    /\ query = <<97, 98, 99, 97, 98, 99, 97, 97, 97, 98, 99>>
    /\ state_id = 141
    /\ Len(dfa.distances) = 273

\* C16 as stated, for max distance 2 with transposition: the DFA of build_dfa
\* has fewer than 68 * (query.len() + 1) states, query.len() being the length
\* of the query in bytes.
C16_StateCountBound ==
    (pc = "run" /\ ~prefix /\ damerau /\ max_distance = 2) =>
        dfa_num_states(dfa) < 68 * (Len(as_bytes(query)) + 1)

\* The characters of a word.
CharsOf(word) == {word[i] : i \in 1..Len(word)}

ForeignCharactersAnyMode ==
    (Settled /\ CharsOf(text) \cap CharsOf(query) = {}) =>
        /\ Len(text) <= max_distance => state # SINK_STATE
        /\ Len(text) = max_distance + 1 => state = SINK_STATE

\* s1 implies s2, as the specification states it:
\* s1.distance + |s1.offset - s2.offset| <= s2.distance, and < when s1 is not
\* in transposition and s2 is.
Implies(s1, s2) ==
    LET reach == s1.distance + (IF s1.offset >= s2.offset
                                THEN s1.offset - s2.offset
                                ELSE s2.offset - s1.offset)
    IN  IF ~s1.in_transpose /\ s2.in_transpose
        THEN reach < s2.distance
        ELSE reach <= s2.distance

\* C18: whatever states were added, no state of a MultiState is implied by
\* another of its states, and none is there twice.
C18_Antichain ==
    \A i, j \in 1..Len(multistate) :
        i # j => /\ ~Implies(multistate[i], multistate[j])
                 /\ multistate[i] # multistate[j]

\* A MultiState of three states, one in transposition, after a state was
\* added that evicted another.
C18_Witness ==
    /\ Len(multistate) = 3
    /\ \E i \in 1..3 : multistate[i].in_transpose
    /\ \E s \in NFAStates :
          /\ s \notin {multistate[i] : i \in 1..3}
          /\ Implies(multistate[3], s)
          /\ \A i \in 1..2 : ~Implies(multistate[i], s) /\ ~Implies(s, multistate[i])

\* C19: The parametric DFA simulates the NFA: for every query and every text,
\* ParametricDFA::compute_distance, which steps the parametric state with the
\* window of the characteristic vector at its offset and reads distance off
\* the last state, gives the Distance of LevenshteinNFA::compute_distance.
C19_Simulation ==
    Settled =>
        pdfa_compute_distance(parametric_dfa, query, text)
            = nfa_compute_distance(max_distance, damerau, query, text)

\* The same with the length of the query counted in characters, as build_dfa
\* counts it.
SimulationByCharacters ==
    Settled =>
        pdfa_distance(parametric_dfa,
                      ParametricRun(parametric_initial_state, text),
                      Len(query))
            = nfa_compute_distance(max_distance, damerau, query, text)

\* The simulation over the queries of ASCII characters only.
SimulationOverAscii ==
    (Settled /\ \A i \in 1..Len(query) : query[i] < 128) =>
        pdfa_compute_distance(parametric_dfa, query, text)
            = nfa_compute_distance(max_distance, damerau, query, text)

\* C20: The NFA without transposition is exact for the max distances 0 to 3:
\* compute_distance(left, right), the multistate_distance of the state its
\* loop ends with, is Exact(d) when d = levenshtein(left, right) is at most
\* the max distance and AtLeast(max distance + 1) otherwise, and so is
\* compute_distance(right, left).
C20_NfaExact ==
    pc = "compute_distance" =>
        LET expected_distance ==
                make_distance(levenshtein(query, text), max_distance)
        IN  /\ multistate_distance(max_distance, multistate, Len(query))
                  = expected_distance
            /\ nfa_compute_distance(max_distance, damerau, text, query)
                  = expected_distance

\* Strings at distance 3 compared by the NFA of max distance 3, and by that
\* of max distance 2.
C20_Witness ==
    /\ pc = "compute_distance"
    /\ max_distance = 3
    /\ query # <<>>
    /\ Len(text) = MaxTextLen
    /\ levenshtein(query, text) = 3
    /\ multistate_distance(max_distance, multistate, Len(query)) = Exact(3)
    /\ nfa_compute_distance(2, damerau, query, text) = AtLeast(3)

\* C21 as stated: in a prefix DFA, the DFA state of every parametric state
\* for which is_prefix_sink holds goes to itself on every byte, and its
\* distance is the distance of that parametric state.
C21_FrozenSinks ==
    (Fresh /\ prefix) =>
        \A id \in 0..(psi_num_states(psi) - 1) :
            Frozen(psi_get(psi, id)) =>
                /\ \A b \in 0..(U8 - 1) :
                       dfa_transition(dfa, StateOf(id), b) = StateOf(id)
                /\ dfa_distance(dfa, StateOf(id))
                     = pdfa_distance(parametric_dfa, psi_get(psi, id), Len(query))

\* The same for whole characters: the bytes of a character lead from a
\* frozen state back to it, and so do the bytes below 0xC0 one at a time.
FrozenSinksByCharacter ==
    (Fresh /\ prefix) =>
        \A id \in 0..(psi_num_states(psi) - 1) :
            Frozen(psi_get(psi, id)) =>
                /\ \A b \in 0..191 :
                       dfa_transition(dfa, StateOf(id), b) = StateOf(id)
                /\ \A c \in Utf8Sample :
                       EvalFrom(dfa, StateOf(id), encode_utf8(c)) = StateOf(id)
                /\ dfa_distance(dfa, StateOf(id))
                     = pdfa_distance(parametric_dfa, psi_get(psi, id), Len(query))

\* The characters that tell the parametric states of the DFA built apart:
\* those of the query and one that is not in any query.
ContinuationChars == CharsOf(query) \cup {98}

\* The parametric states that further characters lead to from those of
\* frontier, seen included.
RECURSIVE ParametricReach(_, _)
ParametricReach(seen, frontier) ==
    IF frontier = {} THEN seen
    ELSE LET next == {ParametricStep(p, c) : p \in frontier,
                                               c \in ContinuationChars}
         IN  ParametricReach(seen \cup frontier, next \ (seen \cup frontier))

\* Some further characters lead from the parametric state p to one of
\* strictly smaller distance to the query.
CanImprove(p) ==
    \E q \in ParametricReach({}, {p}) :
        DistanceOrder(pdfa_distance(parametric_dfa, q, Len(query)),
                      pdfa_distance(parametric_dfa, p, Len(query))) = "Less"

\* is_prefix_sink holds of a parametric state of the query exactly when no
\* further characters lead to a strictly smaller distance.
PrefixSinkIffNoImprovement ==
    (Fresh /\ ~prefix) =>
        \A id \in 0..(psi_num_states(psi) - 1) :
            is_prefix_sink(parametric_dfa, psi_get(psi, id), Len(query))
                <=> ~CanImprove(psi_get(psi, id))

\* The parametric state that the DFA state s stands for.
ParametricOf(s) ==
    psi_get(psi, CHOOSE id \in 0..(psi_num_states(psi) - 1) : StateOf(id) = s)

\* In the prefix DFA, once a prefix of the text has led to a state of Exact
\* distance for which is_prefix_sink is false, the distance of the text is
\* not larger than the distance of any prefix seen until then.
UnfrozenKeepsBest ==
    (Settled /\ prefix) =>
        \A k \in 0..(Len(text) - 1) :
            LET s == EvalFrom(dfa, dfa_initial_state(dfa),
                              as_bytes(SubSeq(text, 1, k)))
            IN  (/\ dfa_distance(dfa, s).kind = "Exact"
                 /\ ~is_prefix_sink(parametric_dfa, ParametricOf(s), Len(query)))
                    => \A j \in 0..k :
                          DistanceOrder(dfa_distance(dfa, state),
                                        eval(dfa, as_bytes(SubSeq(text, 1, j))))
                              # "Greater"

\* C22 as stated: is_prefix_sink(state, |Q|) is true if and only if no
\* sequence of further characters leads from the state to a state of
\* strictly smaller distance to Q; and whenever it is false for a state of
\* Exact distance, the distance reported after any continuation is not larger
\* than the best distance of a prefix already seen.
C22_PrefixSink == PrefixSinkIffNoImprovement /\ UnfrozenKeepsBest

\* build_dfa is about to expand the parametric state state_id: it has not
\* frozen it, and the pass does not fail.
Expanding ==
    /\ pc = "build"
    /\ state_id # psi_num_states(psi)
    /\ ~Frozen(psi_get(psi, state_id))
    /\ ~BuildPassFails(parametric_dfa, query, psi, state_id)

\* The builder of the pass for state_id after add_state and the transitions
\* of the first k characters of the alphabet.
BuilderAfter(k) ==
    LET p == psi_get(psi, state_id)
        g == psi_get_or_allocate(psi,
                 apply(pdfa_transition(parametric_dfa, p, 0), p))
        sb == dfa_add_state(builder, state_id,
                  pdfa_distance(parametric_dfa, p, Len(query)), g.id)
    IN  AlphabetLoop(parametric_dfa, SubSeq(for_query_chars(query), 1, k),
                     p, g.psi, sb.b, sb, 1).b

\* The k-th character of the alphabet has several bytes and its destination
\* from the parametric state state_id is the default successor.
SharesDefault(k) ==
    LET p == psi_get(psi, state_id)
        alphabet == for_query_chars(query)
        chi == shift_and_mask(alphabet[k][2], p.offset,
                              Pow2(parametric_dfa.diameter) - 1)
    IN  /\ Len(encode_utf8(alphabet[k][1])) > 1
        /\ apply(pdfa_transition(parametric_dfa, p, chi), p)
             = apply(pdfa_transition(parametric_dfa, p, 0), p)

\* C23 as stated: while build_dfa builds the row of a state, the transition
\* of a character of several bytes whose destination is the default
\* successor of the state allocates no DFA state.
C23_LazyIntermediates ==
    Expanding =>
        \A k \in 1..Len(for_query_chars(query)) :
            SharesDefault(k) =>
                BuilderAfter(k).num_states = BuilderAfter(k - 1).num_states

\* The characters of Utf8Sample that do not occur in the query.
ForeignChars == Utf8Sample \ CharsOf(query)

\* The DFA state of the parametric state that the transition of chi = 0
\* gives from the parametric state p.
DefaultStateOf(p) ==
    StateOfParametric(apply(pdfa_transition(parametric_dfa, p, 0), p))

\* C24 as stated: from the DFA state of every parametric state p, the bytes
\* of a character that does not occur in the query lead to the DFA state of
\* apply(transition(p, 0), p).
C24_ForeignAsDefault ==
    Fresh =>
        \A id \in 0..(psi_num_states(psi) - 1) : \A c \in ForeignChars :
            EvalFrom(dfa, StateOf(id), encode_utf8(c))
                = DefaultStateOf(psi_get(psi, id))

\* C24, amended: so it is from the state of every parametric state that
\* build_dfa did not freeze as a sink of the prefix DFA; from a frozen state
\* the bytes of such a character lead back to it.
C24_ForeignAsDefaultUnfrozen ==
    Fresh =>
        \A id \in 0..(psi_num_states(psi) - 1) : \A c \in ForeignChars :
            EvalFrom(dfa, StateOf(id), encode_utf8(c))
                = IF Frozen(psi_get(psi, id)) THEN StateOf(id)
                  ELSE DefaultStateOf(psi_get(psi, id))

\* U+3043 is not in the query "あ" and shares its first two bytes with U+3042:
\* from a state whose default successor is not the sink, the two characters
\* go through the same intermediary states, which are not those of the
\* default chain, and part on the last byte, U+3043 for the default successor.
C24_Witness ==
    /\ Fresh /\ ~prefix /\ query = <<12354>> /\ max_distance = 1
    /\ \E id \in 0..(psi_num_states(psi) - 1) :
           LET s == StateOf(id)
           IN  /\ DefaultStateOf(psi_get(psi, id)) # SINK_STATE
               /\ EvalFrom(dfa, s, <<227, 129>>) # EvalFrom(dfa, s, <<227, 130>>)
               /\ EvalFrom(dfa, s, encode_utf8(12355))
                    = DefaultStateOf(psi_get(psi, id))
               /\ EvalFrom(dfa, s, encode_utf8(12354))
                    # DefaultStateOf(psi_get(psi, id))

\* C25: Transition::apply gives offset 0 whenever the destination shape is
\* the dead end, so the only parametric state of shape 0 that build_dfa
\* allocates is (0, 0), of id 0, and the DFA state that stands for it is
\* state 0.
C25_SingleDeadEnd ==
    /\ pc = "ready" =>
           \A i \in 1..Len(parametric_dfa.transitions) :
           \A offset \in 0..MaxQueryLen :
               LET from == ParametricState(
                               (i - 1) \div parametric_dfa.transition_stride,
                               offset)
                   dest == apply(parametric_dfa.transitions[i], from)
               IN  is_dead_end(dest) => dest = ParametricStateEmpty
    /\ pc \in {"build", "run"} =>
           /\ \A id \in 0..(psi_num_states(psi) - 1) :
                  is_dead_end(psi_get(psi, id)) =>
                      /\ id = 0
                      /\ psi_get(psi, id) = ParametricStateEmpty
           /\ StateOf(0) \in {None, SINK_STATE}
    /\ pc = "run" => StateOf(0) = SINK_STATE

\* A parametric state with an offset above 0 from which a character that is
\* not in the query leads to the dead end, kept as (0, 0).
C25_Witness ==
    /\ Fresh /\ query # <<>>
    /\ \E id \in 0..(psi_num_states(psi) - 1) :
           /\ psi_get(psi, id).offset > 0
           /\ pdfa_transition(parametric_dfa, psi_get(psi, id), 0).dest_shape_id = 0
           /\ ParametricStep(psi_get(psi, id), 98) = ParametricStateEmpty
           /\ EvalFrom(dfa, StateOf(id), <<98>>) = SINK_STATE

\* The counters of the two worklists: from_nfa has recorded 2^(2n+1)
\* transitions for each shape below shape_id, which does not pass the length
\* of the index, and ends with those of every shape; build_dfa's state_id
\* does not pass the number of parametric states, which are distinct and at
\* most num_shapes * (|Q| + 1), and ends on that number.
WorklistCounts ==
    /\ pc = "from_nfa" =>
           /\ shape_id <= Len(index)
           /\ Len(transitions)
                = shape_id * Pow2(multistate_diameter(max_distance))
    /\ pc # "from_nfa" =>
           /\ shape_id = Len(index)
           /\ Len(parametric_dfa.transitions)
                = Len(index) * Pow2(multistate_diameter(max_distance))
           /\ pdfa_num_states(parametric_dfa) = Len(index)
    /\ \A i, j \in 1..Len(index) : index[i] = index[j] => i = j
    /\ pc \in {"build", "run"} =>
           /\ state_id <= psi_num_states(psi)
           /\ psi_num_states(psi)
                <= pdfa_num_states(parametric_dfa) * (Len(query) + 1)
           /\ \A i, j \in 0..(psi_num_states(psi) - 1) :
                  psi_get(psi, i) = psi_get(psi, j) => i = j
    /\ pc = "run" => state_id = psi_num_states(psi)

\* A pass of either worklist takes the next shape, or the next parametric
\* state, and takes back nothing of what the worklist holds.
WorklistPass ==
    /\ (pc = "from_nfa" /\ pc' = "from_nfa") =>
           /\ shape_id' = shape_id + 1
           /\ SubSeq(index', 1, Len(index)) = index
           /\ SubSeq(transitions', 1, Len(transitions)) = transitions
    /\ (pc = "build" /\ pc' = "build") =>
           /\ state_id' = state_id + 1
           /\ SubSeq(psi'.state_queue, 1, psi_num_states(psi)) = psi.state_queue

\* C26: from_nfa stops after one pass for each shape, with
\* num_shapes * 2^(2n+1) transitions recorded, and build_dfa stops after one
\* pass for each parametric state it allocated, of which there are never
\* more than num_shapes * (|Q| + 1).
C26_WorklistsTerminate ==
    /\ []WorklistCounts
    /\ [][WorklistPass]_vars
    /\ (pc = "from_nfa") ~> (pc = "ready")
    /\ (pc = "build") ~> (pc = "run")

\* Both worklists have ended, from_nfa's on more than 30 shapes and
\* build_dfa's on at least 10 parametric states.
C26_Witness ==
    /\ pc = "run"
    /\ max_distance = 2
    /\ Len(index) > 30
    /\ Len(parametric_dfa.transitions) = Len(index) * 32
    /\ state_id = psi_num_states(psi)
    /\ state_id >= 10

\* C27: shift_and_mask(offset, mask) on the vector of a character c of the
\* query is the window of the whole characteristic vector of c that starts
\* at offset, under the mask: bit i is set exactly when the mask has bit i
\* and Q[offset + i] exists and is c, whether or not the window lies in one
\* word of 32 bits.
C27_ShiftAndMask ==
    (pc = "alphabet" /\ entry # 0) =>
        window = BitsValue({i \in 0..(WordBits - 1) :
                              /\ extract_bit(window_mask, i)
                              /\ window_offset + i + 1 <= Len(query)
                              /\ query[window_offset + i + 1]
                                   = charset[entry][1]})

\* alphabet.rs test_long_characteristic: shift_and_mask(28, 127) on the
\* vector of 'a' is 1 + 2 + 16, bit 4 being character 32 of the query, the
\* first of the second word.
C27_Witness ==
    /\ pc = "alphabet" /\ entry # 0 /\ Len(query) = 37
    /\ charset[entry][1] = 97
    /\ window_offset = 28 /\ window_mask = 127
    /\ window = 19

\* C28: for_query_chars(Q) has one entry for each distinct character of Q,
\* in ascending order of the characters, and bit i of the vector of the
\* entry of c is set exactly when Q[i] = c, for every i below |Q|.
C28_Alphabet ==
    pc = "alphabet" =>
        /\ {charset[k][1] : k \in 1..Len(charset)} = CharsOf(query)
        /\ \A k \in 1..(Len(charset) - 1) : charset[k][1] < charset[k + 1][1]
        /\ \A k \in 1..Len(charset) : \A i \in 0..(Len(query) - 1) :
               (i % WordBits) \in charset[k][2][(i \div WordBits) + 1]
                   <=> query[i + 1] = charset[k][1]

\* alphabet.rs test_alphabet: "happy" gives a, h, p, y with the vectors 2, 1,
\* 4 + 8 and 16.
C28_Witness ==
    /\ pc = "alphabet" /\ query = <<104, 97, 112, 112, 121>>
    /\ [k \in 1..4 |-> charset[k][1]] = <<97, 104, 112, 121>>
    /\ [k \in 1..4 |-> BitsValue(charset[k][2][1])] = <<2, 1, 12, 16>>

\* The first bytes of the characters of num_bytes bytes, as add_state
\* sorts them: 0x00..0xBF, 0xC0..0xDF, 0xE0..0xEF, 0xF0..0xFF.
FirstBytes(num_bytes) == RangeFirst[num_bytes]..(RangeEnd[num_bytes] - 1)

\* The states the DFA self is in one byte after a state of from, whatever
\* the byte is.
AfterAnyByte(self, from) ==
    {dfa_transition(self, f, b) : f \in from, b \in 0..(U8 - 1)}

\* The states the DFA is in after a first byte of a character of num_bytes
\* bytes from the state from and then k bytes, whatever they are.
RECURSIVE AfterBytes(_, _, _, _)
AfterBytes(self, from, num_bytes, k) ==
    IF k = 0 THEN {dfa_transition(self, from, b) : b \in FirstBytes(num_bytes)}
    ELSE AfterAnyByte(self, AfterBytes(self, from, num_bytes, k - 1))

\* The DFA state of the state s given to add_state.
BuiltStateOf(s) == OptGet(builder.index, Utf8StateId_original(s))

\* C29: in a DFA built with add_state only, from a defined state s with
\* default successor t a first byte of 0x00..0xBF reaches t after 1 byte, of
\* 0xC0..0xDF after exactly 2, of 0xE0..0xEF after exactly 3 and of
\* 0xF0..0xFF after exactly 4 (not before), whatever the bytes that follow;
\* so the bytes of one UTF-8 character lead from s to t.
C29_DefaultChain ==
    pc = "built" =>
        \A s \in DOMAIN defined :
            LET from == BuiltStateOf(s)
                to == BuiltStateOf(defined[s])
            IN  /\ from # None /\ to # None
                /\ \A num_bytes \in 1..4 :
                       /\ AfterBytes(dfa, from, num_bytes, num_bytes - 1) = {to}
                       /\ \A k \in 0..(num_bytes - 2) :
                              to \notin AfterBytes(dfa, from, num_bytes, k)
                /\ \A c \in Utf8Sample : EvalFrom(dfa, from, as_bytes(<<c>>)) = to

\* The DFA of test_utf8_dfa_builder, which tells the parity of the number
\* of characters: "❤" is one character of three bytes, "aあ" two characters.
C29_Witness ==
    /\ pc = "built"
    /\ defined = (0 :> 1) @@ (1 :> 0)
    /\ dfa.initial_state = BuiltStateOf(1)
    /\ dfa_num_states(dfa) = 8
    /\ eval(dfa, <<226, 157, 164>>) = Exact(1)
    /\ eval(dfa, as_bytes(<<97, 12354>>)) = Exact(0)

\* The loop of the usage example of DFA from a state: it stops at the first
\* step where the state equals SINK_STATE.
RECURSIVE EarlyFrom(_, _, _)
EarlyFrom(self, from, bytes) ==
    IF bytes = <<>> THEN from
    ELSE LET next == dfa_transition(self, from, Head(bytes))
         IN  IF next = SINK_STATE THEN next
             ELSE EarlyFrom(self, next, Tail(bytes))

\* The usage example of DFA: the loop, then dfa.distance(state).
EarlyEval(self, bytes) ==
    dfa_distance(self, EarlyFrom(self, dfa_initial_state(self), bytes))

\* The sequences of at most two bytes of ByteSample.
ShortByteSequences ==
    {<<>>} \cup {<<b>> : b \in ByteSample}
           \cup {<<b, c>> : b \in ByteSample, c \in ByteSample}

\* The texts of at most two characters of Utf8Sample.
ShortTexts ==
    {<<>>} \cup {<<c>> : c \in Utf8Sample}
           \cup {<<c, d>> : c \in Utf8Sample, d \in Utf8Sample}

\* C30: for every built DFA and every byte sequence, the loop that stops at
\* the first step where the state equals SINK_STATE and then calls
\* distance(state) returns the same Distance as eval.
C30_EarlyTermination ==
    Fresh => \A bytes \in ShortByteSequences :
                 EarlyEval(dfa, bytes) = eval(dfa, bytes)

\* The same over the bytes of whole characters only (a str, as in the usage
\* example).
EarlyTerminationOverCharacters ==
    Fresh => \A chars \in ShortTexts :
                 EarlyEval(dfa, as_bytes(chars)) = eval(dfa, as_bytes(chars))

\* The last call on the builder was given a state id that is not lower than
\* max_num_states.
CalledWithLargeId ==
    /\ pc \in {"builder", "initial", "panic"}
    /\ \E id \in call.ids : id >= builder.max_num_states

\* C31: a builder made by with_max_num_states(m) only accepts state ids lower
\* than m: a call of add_state, add_transition or set_initial_state with an
\* id >= m panics, and leaves no state allocated and no table written.
C31_RejectsLargeIds ==
    CalledWithLargeId => pc = "panic" /\ builder = call.before

\* The ParametricStates allocated by build_dfa so far.
Allocated == {psi_get(psi, id) : id \in 0..(psi_num_states(psi) - 1)}

\* The (shape, offset) pairs of a query: the shapes of the parametric DFA,
\* the offsets up to the number of characters of the query.
ShapeOffsetPairs ==
    [shape_id : 0..(pdfa_num_states(parametric_dfa) - 1),
     offset : 0..Len(query)]

\* C32: every ParametricState allocated during build_dfa(Q) has an offset of
\* at most the number of characters of Q, so query_len - state.offset is not
\* below zero, its bucket is inside the index, holds its id, and is the
\* bucket of no other (shape, offset) pair.
C32_OffsetBound ==
    (pc = "build" \/ Fresh) =>
        \A id \in 0..(psi_num_states(psi) - 1) :
            LET parametric_state == psi_get(psi, id)
                bucket == psi_bucket(psi, parametric_state)
            IN  /\ parametric_state.offset <= Len(query)
                /\ Len(query) - parametric_state.offset >= 0
                /\ bucket < psi.index_len
                /\ OptGet(psi.state_index, bucket) = id
                /\ \A pair \in ShapeOffsetPairs :
                       psi_bucket(psi, pair) = bucket => pair = parametric_state

\* A DFA built for a query of two characters with a state at the end of the
\* query, one in front of it and more than one shape at offset 0.
C32_Witness ==
    /\ Fresh
    /\ Len(query) = 2
    /\ \E p \in Allocated : p.offset = Len(query) /\ p.shape_id > 1
    /\ \E p \in Allocated : p.offset = 1
    /\ \E p \in Allocated, r \in Allocated :
           p.offset = 0 /\ r.offset = 0 /\ p.shape_id > r.shape_id /\ r.shape_id > 0

\* The bits of the chi of a shape that simple_transition reads for one of
\* its members: transition shifts chi by the offset of the member, and
\* simple_transition extracts bit 0 and, when state.distance < max_distance,
\* the bits 1..max_distance - state.distance.
BitsRead(n, member) ==
    {member.offset + d :
        d \in 0..(IF member.distance < n THEN n - member.distance ELSE 0)}

\* The bits of a chi of from_nfa: chi < 1 << multistate_diameter.
Window(n) == 0..(multistate_diameter(n) - 1)

\* C33: in every shape that from_nfa enumerates for max distance n, with or
\* without transposition, every member has distance <= n and an offset
\* <= 2n, below the diameter 2n + 1; the bits of chi a member reads are
\* inside the window of 2n + 1 bits; and the shape has no distance <= n at a
\* remaining offset that the table of 2n + 1 distances leaves out.
C33_WindowBound ==
    pc = "from_nfa" =>
        \A k \in 1..Len(index) :
            /\ \A i \in 1..Len(index[k]) :
                   /\ index[k][i].distance <= max_distance
                   /\ index[k][i].offset <= 2 * max_distance
                   /\ index[k][i].offset < multistate_diameter(max_distance)
                   /\ BitsRead(max_distance, index[k][i]) \subseteq Window(max_distance)
            /\ \A remaining \in multistate_diameter(max_distance)
                                  ..(3 * max_distance + 2) :
                   multistate_distance(max_distance, index[k], remaining)
                       = AtLeast(max_distance + 1)

\* from_nfa has enumerated, for max distance 2 with transposition, a shape
\* with a member at the offset 2n and a shape with a member that reads the
\* last bit of the window through a deletion.
C33_Witness ==
    /\ pc = "from_nfa" /\ damerau /\ max_distance = 2
    /\ shape_id = Len(index)
    /\ \E k \in 1..Len(index) : \E i \in 1..Len(index[k]) :
           index[k][i].offset = 2 * max_distance
    /\ \E k \in 1..Len(index) : \E i \in 1..Len(index[k]) :
           /\ index[k][i].distance < max_distance
           /\ 2 * max_distance \in BitsRead(max_distance, index[k][i])
    /\ \E k \in 1..Len(index) : \E i \in 1..Len(index[k]) : index[k][i].in_transpose

\* The states that byte sequences, valid UTF-8 or not, lead to from the sink.
AfterSink == ReachableFrom(dfa, {}, {SINK_STATE})

\* C34: in every built DFA, normal or prefix, no byte sequence leads from
\* SINK_STATE to a state whose distance is Exact: where can_match is false,
\* is_match is false after every continuation.
C34_EarlyTerminationSound ==
    Fresh =>
        /\ ~can_match(dfa, SINK_STATE)
        /\ \A s \in AfterSink : ~is_match(dfa, s)
        /\ \A s \in 0..(dfa_num_states(dfa) - 1) :
               ~can_match(dfa, s) =>
                   \A bytes \in ShortByteSequences :
                       ~is_match(dfa, EvalFrom(dfa, s, bytes))

\* A DFA whose sink is reached from the initial state and left by bytes:
\* for the states of the default chain of the sink and for those of the
\* first bytes of a character of the query.
C34_Witness ==
    /\ Fresh /\ ~prefix /\ max_distance = 1 /\ Len(query) = 2
    /\ SINK_STATE \in ReachableFrom(dfa, {}, {dfa_initial_state(dfa)})
    /\ Cardinality(AfterSink) > 4
    /\ \E s \in ReachableFrom(dfa, {}, {dfa_initial_state(dfa)}) : is_match(dfa, s)

\* The builder after the add_state of the pass of build_dfa for state_id,
\* before its add_transition calls.
AfterAddState ==
    LET query_len == Len(query)
        parametric_state == psi_get(psi, state_id)
        distance == pdfa_distance(parametric_dfa, parametric_state, query_len)
    IN  IF prefix /\ is_prefix_sink(parametric_dfa, parametric_state, query_len)
        THEN dfa_add_state(builder, state_id, distance, state_id)
        ELSE dfa_add_state(builder, state_id, distance,
                 psi_get_or_allocate(psi,
                     apply(pdfa_transition(parametric_dfa, parametric_state, 0),
                           parametric_state)).id)

\* The DFA states whose row differs between the builders before and after.
RowsWritten(before, after) ==
    {s \in 0..(before.num_states - 1) :
        after.transitions[s + 1] # before.transitions[s + 1]}

\* The DFA states of the parametric states and of their default chains: the
\* states the index of the builder b knows.
Indexed(b) == {b.index[bucket] : bucket \in DOMAIN b.index}

\* A pass of build_dfa's loop for the parametric state state_id.
PassOfBuildDfa == pc = "build" /\ state_id' = state_id + 1

\* C35: during build_dfa, add_state is called once per parametric state (the
\* pass of state_id, and state_id goes up by one), and the add_transition
\* calls of a pass write only into the row of its state and into rows of
\* intermediary states allocated in the pass: the rows of the other
\* parametric states and of the default chains, allocated before or in the
\* pass, stay as add_state left them.
C35_RowIsolation ==
    [][/\ (pc = "build" /\ pc' = "build" /\ builder' # builder) => PassOfBuildDfa
       /\ (pc = "build" /\ pc' = "run") => state_id = psi_num_states(psi)
       /\ PassOfBuildDfa =>
          LET sb == AfterAddState
          IN  /\ sb.state_id = OptGet(builder'.index, Utf8StateId_original(state_id))
              /\ RowsWritten(sb.b, builder') \subseteq {sb.state_id}
              /\ \A s \in Indexed(builder') \ Indexed(sb.b) :
                     builder'.transitions[s + 1] = ZeroRow
              /\ RowsWritten(builder, builder') \subseteq {sb.state_id}
              /\ builder'.distances[sb.state_id + 1]
                     = pdfa_distance(parametric_dfa, psi_get(psi, state_id),
                                     Len(query))
    ]_vars

\* build_dfa is past a pass that wrote transitions of characters of three
\* bytes while other parametric states and their default chains were there.
C35_Witness ==
    /\ pc = "build" /\ ~prefix /\ state_id >= 3
    /\ query = <<12354, 97>>
    /\ Cardinality(Indexed(builder)) >= 12
    /\ builder.num_states > Cardinality(Indexed(builder))

\* The chi that the pass of build_dfa for state_id gives to
\* ParametricDFA::transition: 0 for the default successor, then the
\* shift_and_mask of the vector of each character of the alphabet.
ChisOfPass ==
    LET alphabet == for_query_chars(query)
        mask == Pow2(parametric_dfa.diameter) - 1
        offset == psi_get(psi, state_id).offset
    IN  {0} \cup {shift_and_mask(alphabet[k][2], offset, mask) :
                     k \in 1..Len(alphabet)}

\* C36: during build_dfa every chi given to ParametricDFA::transition is
\* below the transition stride 2^(2n+1), so its assert holds and the index
\* transition_stride * shape_id + chi is inside the transitions table; and
\* the dead end is the first state of the index, so dead_end_state_id is 0.
C36_AssertionsHold ==
    /\ pc = "build" =>
           /\ psi_num_states(psi) > 0
           /\ psi_get(psi, 0) = ParametricStateEmpty
           /\ BuildStart(parametric_dfa, query).dead_end_state_id = 0
           /\ parametric_dfa.transition_stride = Pow2(2 * max_distance + 1)
    /\ (pc = "build" /\ state_id # psi_num_states(psi)) =>
           \A chi \in ChisOfPass :
               /\ chi < parametric_dfa.transition_stride
               /\ parametric_dfa.transition_stride
                      * psi_get(psi, state_id).shape_id + chi
                    < Len(parametric_dfa.transitions)

\* A pass of build_dfa, for max distance 1 and a query of three equal
\* characters, of a state at offset 0 whose shape is not the initial one: a
\* chi with every bit of the window is among those of the pass.
C36_Witness ==
    /\ pc = "build" /\ state_id # psi_num_states(psi)
    /\ max_distance = 1
    /\ query = <<97, 97, 97>>
    /\ psi_get(psi, state_id).offset = 0
    /\ psi_get(psi, state_id).shape_id > 1
    /\ parametric_dfa.transition_stride - 1 \in ChisOfPass
====
